---- MODULE Spec2Model ----
(***************************************************************************)
(* The Impala SQL compiler of ibis (ibis/backends/sql/compilers/impala.py) *)
(* as a state machine: an expression graph is built, then one compile call *)
(* walks it bottom-up with a memo map, dispatching every node through the  *)
(* dialect's tables (UNSUPPORTED_OPS, the visit_* overrides, SIMPLE_OPS).  *)
(* The traversal and the dispatch live in the base compiler, which is not  *)
(* among the source files; they follow sections 4.2 and 4.3 of the         *)
(* specification.  The tables and the visitors follow impala.py.           *)
(***************************************************************************)
EXTENDS Integers, Sequences, FiniteSets, TLC

VARIABLES
    graph,      \* graph[c]: the expression graph of call c, a sequence of nodes
    pc,         \* pc[c]: "off", "build", "run" or "done"
    stack,      \* stack[c]: the traversal's frames <<node, next argument>>
    memo,       \* the memo maps of the running calls, keyed by MemoKey
    visits,     \* visits[c][n]: how often the visitor of node n has run
    emitted,    \* emitted[c]: the nodes a fragment was produced for
    result,     \* result[c]: the outcome of call c
    instance,   \* the attributes of the module-level compiler instance
    mapper,     \* the type mapper's round: a logical type, its DDL string,
                \* the driver's report of the column and the parsed schema
    names,      \* the identifiers gen_name has returned, in order
    query,      \* a relational query on its way through the rewrite pipeline
    duck,       \* a DuckDB database and the create_table call running on it
    sliced,     \* a Python slice and its conversion to a limit and an offset
    converted,  \* a convert_unit call: its arguments and its outcome
    chunked,    \* a chunks generator: its arguments and the pairs yielded
    indexed,    \* a string expression indexed by a key, and the outcome
    rbr,        \* a DuckDB backend's record-batch-reader flags and warnings
    ext,        \* a DuckDB backend's extensions and a _load_extensions call
    casted      \* a Cast node compiled by the Impala compiler

compileVars == <<graph, pc, stack, memo, visits, emitted, result, instance>>

\* The variables no step of a compile call touches.
utilVars == <<converted, chunked, indexed, rbr, ext, casted>>

nonCompileVars == <<mapper, names, query, duck, sliced, utilVars>>

vars == <<compileVars, mapper, names, query, duck, sliced, utilVars>>

-----------------------------------------------------------------------------
(* Bounds *)

MaxNodes == 3       \* nodes of a graph compiled alone
MaxNodesConc == 2   \* nodes of each graph when two calls run concurrently
MaxClock == 1       \* wall-clock readings a visitor can observe: 0..MaxClock
MaxPrecision == 2   \* the largest decimal precision of a logical type
MaxNames == 2       \* calls of gen_name
UuidBits == 2       \* bits of a uuid4 value (128 in the program)
MaxRows == 3        \* rows of the table a slice is applied to
MaxValue == 2       \* the values converted are k, 60 k and 1000 k, |k| <= MaxValue
MaxIndex == 4
MaxKey == 2         \* the largest integer in the key of a string expression
MaxLoads == 2       \* calls of _load_extensions on one backend
MaxOps == 3         \* registrations and pre-execute hooks on one backend
MaxCount == 7       \* the largest number of elements cut into chunks
MaxChunk == 4       \* the largest chunk size       \* the largest absolute value of a slice's start and stop

Calls == {1, 2}
Clocks == 0..MaxClock

-----------------------------------------------------------------------------
(* Dialect configuration: impala.py, class ImpalaCompiler *)

Dialect == "impala"

UNSUPPORTED_OPS ==
    { "ArrayPosition", "Array", "ArgMax", "ArgMin", "Covariance",
      "ExtractDayOfYear", "Levenshtein", "Map", "Median", "NthValue",
      "RegexSplit", "RowID", "StringSplit", "StringToTime", "StructColumn",
      "Time", "TimeDelta", "TimestampBucket", "TimestampDelta", "Unnest",
      "Kurtosis" }

\* SIMPLE_OPS with the names of two entries exchanged.
SIMPLE_OPS_Swapped ==
    ("All" :> "min") @@ ("Any" :> "max") @@ ("ApproxMedian" :> "appx_median")
    @@ ("BaseConvert" :> "conv") @@ ("BitwiseAnd" :> "bitor")
    @@ ("BitwiseLeftShift" :> "shiftleft") @@ ("BitwiseNot" :> "bitnot")
    @@ ("BitwiseOr" :> "bitand") @@ ("BitwiseRightShift" :> "shiftright")
    @@ ("BitwiseXor" :> "bitxor") @@ ("Cot" :> "cot")
    @@ ("DayOfWeekName" :> "dayname")
    @@ ("ExtractEpochSeconds" :> "unix_timestamp") @@ ("Hash" :> "fnv_hash")
    @@ ("Ln" :> "ln") @@ ("TypeOf" :> "typeof")
    @@ ("RegexReplace" :> "regexp_replace")

SIMPLE_OPS ==
    ("All" :> "min") @@ ("Any" :> "max") @@ ("ApproxMedian" :> "appx_median")
    @@ ("BaseConvert" :> "conv") @@ ("BitwiseAnd" :> "bitand")
    @@ ("BitwiseLeftShift" :> "shiftleft") @@ ("BitwiseNot" :> "bitnot")
    @@ ("BitwiseOr" :> "bitor") @@ ("BitwiseRightShift" :> "shiftright")
    @@ ("BitwiseXor" :> "bitxor") @@ ("Cot" :> "cot")
    @@ ("DayOfWeekName" :> "dayname")
    @@ ("ExtractEpochSeconds" :> "unix_timestamp") @@ ("Hash" :> "fnv_hash")
    @@ ("Ln" :> "ln") @@ ("TypeOf" :> "typeof")
    @@ ("RegexReplace" :> "regexp_replace")

\* The operation kinds impala.py defines a visit_* method for (those modelled).
VISITORS ==
    { "Log2", "Log10", "Literal", "Xor", "RandomScalar", "HashBytes",
      "StringContains", "Strftime", "TimestampTruncate", "TimestampAdd",
      "DateDelta" }

\* Kinds with neither a deny entry, a visitor nor a rename entry in impala.py.
DefaultKinds == { "Field", "Add" }

Kinds == UNSUPPORTED_OPS \cup VISITORS \cup DOMAIN SIMPLE_OPS \cup DefaultKinds

-----------------------------------------------------------------------------
(* Dialect-AST fragments, errors, outcomes *)

Frag(tag, f, x, a) == [tag |-> tag, f |-> f, x |-> x, a |-> a]

Func(name, args) == Frag("func", name, "", args)
Lit(v) == Frag("lit", v, "", <<>>)
Cast(e, to) == Frag("cast", "cast", to, <<e>>)
BinOp(sym, l, r) == Frag("binop", sym, "", <<l, r>>)
Not(e) == Frag("not", "not", "", <<e>>)
Interval(v, unit) == Frag("interval", v, unit, <<>>)
NULL == Frag("null", "NULL", "", <<>>)

NoFrag == Frag("none", "", "", <<>>)
Uncompiled == Frag("uncompiled", "", "", <<>>)

Err(cls, kind, dialect, reason) ==
    [cls |-> cls, kind |-> kind, dialect |-> dialect, reason |-> reason]

NoErr == Err("", "", "", "")

Ok(frag) == [ok |-> TRUE, frag |-> frag, err |-> NoErr]
Raise(err) == [ok |-> FALSE, frag |-> NoFrag, err |-> err]

-----------------------------------------------------------------------------
(* IR nodes *)

Node(kind, args, attr, dtype) ==
    [kind |-> kind, args |-> args, attr |-> attr, dtype |-> dtype]

\* Literal nodes: <<value, dtype>>.  "None" is Python's None.
LiteralValues ==
    { <<"day", "string">>, <<"week", "string">>, <<"%Y", "string">>,
      <<"1", "interval">>, <<"1", "int64">>, <<"1.5", "decimal">>,
      <<"NaN", "decimal">>, <<"Infinity", "decimal">>, <<"[]", "array">>,
      <<"{}", "map">>, <<"{}", "struct">>, <<"2020-01-01", "date">>,
      <<"2020-01-01T00:00:00", "timestamp">>, <<"u", "uuid">>,
      <<"b", "binary">>, <<"None", "binary">>, <<"None", "string">>,
      <<"None", "int64">>, <<"x", "string">> }

HashAlgorithms == { "md5", "sha1", "sha256", "sha512", "crc32" }

TruncateUnits == { "Y", "Q", "M", "W", "D", "h", "m", "s", "ms", "us", "ns" }

\* The non-node arguments <<attr, dtype>> a node of a kind can carry.
Variants(kind) ==
    CASE kind = "Literal" -> LiteralValues
      [] kind = "Field" -> { <<"a", "">>, <<"b", "">> }
      [] kind = "HashBytes" -> { <<h, "">> : h \in HashAlgorithms }
      [] kind = "TimestampTruncate" -> { <<u, "">> : u \in TruncateUnits }
      [] OTHER -> { <<"", "">> }

\* The number of node-valued arguments of a kind (its declared signature).
Arity(kind) ==
    CASE kind \in { "Field", "Literal", "RandomScalar", "RowID" } -> 0
      [] kind \in { "Add", "Xor", "StringContains", "Strftime", "TimestampAdd",
                    "ArrayPosition", "ArgMax", "ArgMin", "Covariance",
                    "Levenshtein", "Map", "NthValue", "RegexSplit",
                    "StringSplit", "StringToTime", "TimeDelta",
                    "TimestampBucket", "TimestampDelta", "BitwiseAnd",
                    "BitwiseLeftShift", "BitwiseOr", "BitwiseRightShift",
                    "BitwiseXor" } -> 2
      [] kind \in { "DateDelta", "BaseConvert", "RegexReplace" } -> 3
      [] OTHER -> 1

\* strings.py StringValue.contains: the node of self.contains(substr), built
\* over the nodes self and substr of the graph.
contains(self, substr) ==
    Node("StringContains", <<self, substr>>, "", "")

\* All sequences of length k over 1..n.
ArgSeqs(n, k) == [1..k -> 1..n]

-----------------------------------------------------------------------------
(* Visitors of impala.py *)

\* impala.py visit_Log2
visit_Log2(arg) ==
    Ok(Func("log2", <<arg>>))

\* impala.py visit_Log10
visit_Log10(arg) ==
    Ok(Func("log10", <<arg>>))

\* impala.py visit_Xor: (left OR right) AND NOT (left AND right)
visit_Xor(left, right) ==
    Ok(BinOp("and", BinOp("or", left, right), Not(BinOp("and", left, right))))

ClockToken(clk) ==
    CASE clk = 0 -> "t0"
      [] clk = 1 -> "t1"
      [] OTHER -> "tn"

\* visit_RandomScalar seeding rand with the compiling host's clock.
visit_RandomScalarSeeded(op, clk) ==
    Ok(Func("rand", <<Lit(ClockToken(clk))>>))

\* impala.py visit_RandomScalar: the seed is an SQL expression evaluated by
\* the engine; the visitor does not read the clock clk of the compiling host.
visit_RandomScalar(op, clk) ==
    Ok(Func("rand", <<Func("utc_to_unix_micros", <<Func("utc_timestamp", <<>>)>>)>>))

\* visit_HashBytes returning None for an unknown algorithm instead of raising.
visit_HashBytesSilent(arg, how) ==
    IF how \notin { "md5", "sha1", "sha256", "sha512" }
    THEN Ok(NoFrag)
    ELSE Ok(Func(how, <<arg>>))

\* impala.py visit_HashBytes
visit_HashBytes(arg, how) ==
    IF how \notin { "md5", "sha1", "sha256", "sha512" }
    THEN Raise(Err("UnsupportedOperationError", "", "", how))
    ELSE Ok(Func(how, <<arg>>))

\* visit_StringContains with the arguments of locate exchanged.
visit_StringContainsSwapped(haystack, needle) ==
    Ok(BinOp(">", Func("locate", <<haystack, needle>>), Lit("0")))

\* impala.py visit_StringContains
visit_StringContains(haystack, needle) ==
    Ok(BinOp(">", Func("locate", <<needle, haystack>>), Lit("0")))

\* value.is_finite() of a decimal value
IsFinite(value) == value \notin { "NaN", "Infinity", "-Infinity" }

\* The visitor returns None (no dialect-specific literal).
ReturnsNone == Ok(NoFrag)

\* impala.py visit_NonNullLiteral
visit_NonNullLiteral(value, dtype) ==
    IF dtype \in { "date", "timestamp" }
    THEN Ok(Frag("lit", value, "string", <<>>))
    ELSE IF dtype = "decimal" /\ ~IsFinite(value)
    THEN Raise(Err("UnsupportedOperationError", "", "",
                   "Non-finite decimal literal values are not supported by Impala"))
    ELSE IF dtype \in { "array", "map", "struct" }
    THEN Raise(Err("UnsupportedBackendType", "", "",
                   "Impala does not support literals of this type"))
    ELSE IF dtype = "uuid"
    THEN Ok(Frag("lit", value, "string", <<>>))
    ELSE ReturnsNone

\* The base compiler's literal translation (section 4.3): a NULL keeps its
\* logical type, a value goes through visit_NonNullLiteral and, when that
\* returns None, through the default literal translation.
DefaultLiteral(value, dtype) ==
    IF dtype = "interval" THEN Interval(value, "D")
    ELSE Frag("lit", value, dtype, <<>>)

BaseVisitLiteral(value, dtype) ==
    IF value = "None" THEN Ok(Cast(NULL, dtype))
    ELSE LET r == visit_NonNullLiteral(value, dtype)
         IN  IF r = ReturnsNone THEN Ok(DefaultLiteral(value, dtype)) ELSE r

\* visit_Literal returning NULL for every binary literal, None or not.
visit_LiteralBinaryNull(value, dtype) ==
    IF dtype = "binary"
    THEN Ok(NULL)
    ELSE BaseVisitLiteral(value, dtype)

\* impala.py visit_Literal
visit_Literal(value, dtype) ==
    IF value = "None" /\ dtype = "binary"
    THEN Ok(NULL)
    ELSE BaseVisitLiteral(value, dtype)

\* sqlglot's format_time with Impala's inverted TIME_MAPPING.
FormatTime(fmt) ==
    CASE fmt = "%Y" -> "yyyy"
      [] OTHER -> fmt

\* impala.py visit_Strftime; fmtop is op.format_str, the format node itself.
visit_Strftime(fmtop, arg, format_str) ==
    IF fmtop.kind # "Literal"
    THEN Raise(Err("UnsupportedOperationError", "", "",
                   "strftime format string must be a literal"))
    ELSE Ok(Func("from_unixtime",
                 << Func("unix_timestamp", <<Cast(arg, "string")>>),
                    Lit(FormatTime(fmtop.attr)) >>))

\* The units table of visit_TimestampTruncate.
TruncateUnitNames ==
    ("Y" :> "YEAR") @@ ("M" :> "MONTH") @@ ("W" :> "WEEK") @@ ("D" :> "DAY")
    @@ ("h" :> "HOUR") @@ ("m" :> "MINUTE") @@ ("s" :> "SECOND")
    @@ ("ms" :> "MILLISECONDS") @@ ("us" :> "MICROSECONDS")

\* impala.py visit_TimestampTruncate; unit is unit.short
visit_TimestampTruncate(arg, unit) ==
    IF unit = "Q" THEN Ok(Func("trunc", <<arg, Lit("Q")>>))
    ELSE IF unit \notin DOMAIN TruncateUnitNames
    THEN Raise(Err("UnsupportedOperationError", "", "",
                   "unit is not supported in timestamp/date truncate"))
    ELSE Ok(Func("date_trunc", <<Lit(TruncateUnitNames[unit]), arg>>))

\* The generic structural default translation of a node (section 4.3, rule 4).
DefaultTranslate(op, kids) ==
    Frag("default", op.kind, op.attr, kids)

\* impala.py visit_TimestampAdd
visit_TimestampAdd(op, left, right) ==
    IF right.tag # "interval"
    THEN Raise(Err("UnsupportedOperationError", "", "",
                   "right operand to timestamp add operation must be a literal"))
    ELSE Ok(Cast(DefaultTranslate(op, <<Cast(left, "timestamp"), right>>),
                 "timestamp"))

\* impala.py visit_DateDelta
visit_DateDelta(left, right, part) ==
    IF part.tag # "lit"
    THEN Raise(Err("UnsupportedOperationError", "", "",
                   "Only literal `part` values are supported for date delta"))
    ELSE IF part.f # "day"
    THEN Raise(Err("UnsupportedOperationError", "", "",
                   "Only 'day' part is supported for date delta in the backend"))
    ELSE Ok(Func("datediff", <<left, right>>))

\* The visit_* method of impala.py for a node op of graph g, given the
\* compiled children kids and the host clock clk.
ImpalaVisit(g, op, kids, clk) ==
    CASE op.kind = "Log2" -> visit_Log2(kids[1])
      [] op.kind = "Log10" -> visit_Log10(kids[1])
      [] op.kind = "Literal" -> visit_Literal(op.attr, op.dtype)
      [] op.kind = "Xor" -> visit_Xor(kids[1], kids[2])
      [] op.kind = "RandomScalar" -> visit_RandomScalar(op, clk)
      [] op.kind = "HashBytes" -> visit_HashBytes(kids[1], op.attr)
      [] op.kind = "StringContains" -> visit_StringContains(kids[1], kids[2])
      [] op.kind = "Strftime" -> visit_Strftime(g[op.args[2]], kids[1], kids[2])
      [] op.kind = "TimestampTruncate" -> visit_TimestampTruncate(kids[1], op.attr)
      [] op.kind = "TimestampAdd" -> visit_TimestampAdd(op, kids[1], kids[2])
      [] op.kind = "DateDelta" -> visit_DateDelta(kids[1], kids[2], kids[3])

-----------------------------------------------------------------------------
(* Dispatch (section 4.3) *)

\* VisitNode without rule 1: a denied kind falls through to the other rules.
VisitNodeNoDeny(g, op, kids, clk) ==
    IF op.kind \in VISITORS
    THEN ImpalaVisit(g, op, kids, clk)
    ELSE IF op.kind \in DOMAIN SIMPLE_OPS
    THEN Ok(Func(SIMPLE_OPS[op.kind], kids))
    ELSE Ok(DefaultTranslate(op, kids))

\* VisitNode with rule 4 ahead of rule 2: the dialect's visitors are ignored.
VisitNodeNoVisitors(g, op, kids, clk) ==
    IF op.kind \in UNSUPPORTED_OPS
    THEN Raise(Err("UnsupportedOperationError", op.kind, Dialect,
                   "operation is not supported"))
    ELSE IF op.kind \in DOMAIN SIMPLE_OPS
    THEN Ok(Func(SIMPLE_OPS[op.kind], kids))
    ELSE Ok(DefaultTranslate(op, kids))

\* The translation of one node: the four rules in their order of precedence.
VisitNode(g, op, kids, clk) ==
    IF op.kind \in UNSUPPORTED_OPS
    THEN Raise(Err("UnsupportedOperationError", op.kind, Dialect,
                   "operation is not supported"))
    ELSE IF op.kind \in VISITORS
    THEN ImpalaVisit(g, op, kids, clk)
    ELSE IF op.kind \in DOMAIN SIMPLE_OPS
    THEN Ok(Func(SIMPLE_OPS[op.kind], kids))
    ELSE Ok(DefaultTranslate(op, kids))

-----------------------------------------------------------------------------
(* The frontend: building an expression graph (section 3) *)

\* The alphabet every node of a graph may be drawn from without limit.
IsCoreNode(node) ==
    \/ node.kind \in { "Add", "Median" }
    \/ node.kind = "Field" /\ node.attr = "a"
    \/ node.kind = "Literal" /\ <<node.attr, node.dtype>> \in
          { <<"day", "string">>, <<"1", "interval">> }

\* The alphabet of the graphs two concurrent calls compile.
IsConcNode(node) ==
    \/ node.kind \in { "Add", "Median", "RandomScalar" }
    \/ node.kind = "Field" /\ node.attr = "a"

\* The nodes of the expression b.contains('x').
IsContainsNode(node) ==
    \/ node.kind = "StringContains"
    \/ node.kind = "Field" /\ node.attr = "b"
    \/ node.kind = "Literal" /\ <<node.attr, node.dtype>> = <<"x", "string">>

Concurrent == pc[2] # "off"

\* The graphs built: any number of core nodes and at most one node of any
\* other kind, so that every kind of the dialect's tables occurs at every
\* position of a graph, and the graphs over the nodes of IsContainsNode; two
\* concurrent calls compile graphs of IsConcNode.
Admissible(node, g) ==
    IF Concurrent
    THEN IsConcNode(node)
    ELSE \/ IsCoreNode(node)
         \/ \A i \in 1..Len(g) : IsCoreNode(g[i])
         \/ IsContainsNode(node) /\ \A i \in 1..Len(g) : IsContainsNode(g[i])

NodeLimit == IF Concurrent THEN MaxNodesConc ELSE MaxNodes

\* Every node but the root is an argument of a later node.
AllReachable(g) ==
    \A i \in 1..(Len(g) - 1) :
        \E j \in (i + 1)..Len(g) : \E k \in 1..Len(g[j].args) : g[j].args[k] = i

Root(g) == Len(g)

\* Constructing a node: nodes are structurally hashed, so building a node
\* equal to an existing one yields the existing node and adds nothing.
Build(c) ==
    /\ pc[c] = "build"
    /\ c = 2 => pc[1] # "build"
    /\ Len(graph[c]) < NodeLimit
    /\ \E kind \in Kinds : \E v \in Variants(kind) :
          \E args \in ArgSeqs(Len(graph[c]), Arity(kind)) :
             LET node == Node(kind, args, v[1], v[2])
             IN  /\ Admissible(node, graph[c])
                 /\ \A i \in 1..Len(graph[c]) : graph[c][i] # node
                 /\ graph' = [graph EXCEPT ![c] = Append(@, node)]
    /\ UNCHANGED <<pc, stack, memo, visits, emitted, result, instance>>
    /\ UNCHANGED nonCompileVars

\* The expression is complete: its root is the last node built.
Freeze(c) ==
    /\ pc[c] = "build"
    /\ c = 2 => pc[1] # "build"
    /\ Len(graph[c]) > 0
    /\ AllReachable(graph[c])
    /\ pc' = [pc EXCEPT ![c] = "ready"]
    /\ UNCHANGED <<graph, stack, memo, visits, emitted, result, instance>>
    /\ UNCHANGED nonCompileVars

-----------------------------------------------------------------------------
(* The compile call: a memoized bottom-up traversal (section 4.3) *)

\* One memo map shared by all calls: the key does not carry the call.
MemoKeyShared(c, n) == <<1, n>>

\* The memo map of a call is local to the call: its keys carry the call.
MemoKey(c, n) == <<c, n>>

\* A lookup that never finds the node.
InMemoMiss(c, n) == FALSE

InMemo(c, n) == MemoKey(c, n) \in DOMAIN memo

\* The fragment a visitor receives for an argument node.
ChildFrag(c, n) == IF InMemo(c, n) THEN memo[MemoKey(c, n)] ELSE Uncompiled

\* The memo map without the entries of call c (the map dies with the call).
DropCall(c) ==
    LET keep == { k \in DOMAIN memo : k[1] # c } IN [k \in keep |-> memo[k]]

\* FirstArg skipping the first argument of a node.
FirstArgSkip(op) == 2

\* The argument a frame starts with.
FirstArg(op) == 1

Frame(n, i) == [n |-> n, i |-> i]

RECURSIVE JoinArgs(_, _)
RECURSIVE Render(_)
\* The generic SQL renderer: the text of a fragment, as a token sequence.
Render(frag) ==
    CASE frag.tag = "func" ->
            <<frag.f, "(">> \o JoinArgs(frag.a, 1) \o <<")">>
      [] frag.tag = "default" ->
            <<frag.f, frag.x, "(">> \o JoinArgs(frag.a, 1) \o <<")">>
      [] frag.tag = "lit" ->
            IF frag.x = "string" THEN <<"'", frag.f, "'">> ELSE <<frag.f>>
      [] frag.tag = "cast" ->
            <<"CAST", "(">> \o Render(frag.a[1]) \o <<"AS", frag.x, ")">>
      [] frag.tag = "binop" ->
            <<"(">> \o Render(frag.a[1]) \o <<frag.f>> \o Render(frag.a[2])
            \o <<")">>
      [] frag.tag = "not" -> <<"NOT">> \o Render(frag.a[1])
      [] frag.tag = "interval" -> <<"INTERVAL", frag.f, frag.x>>
      [] frag.tag = "null" -> <<"NULL">>
      [] OTHER -> <<"?">>

JoinArgs(a, i) ==
    IF i > Len(a) THEN <<>>
    ELSE Render(a[i]) \o (IF i < Len(a) THEN <<",">> ELSE <<>>)
         \o JoinArgs(a, i + 1)

NoResult == [status |-> "none", ast |-> NoFrag, sql |-> <<>>, err |-> NoErr]

Start(c) ==
    /\ pc[c] = "ready"
    /\ \A d \in Calls : pc[d] # "build"
    /\ pc' = [pc EXCEPT ![c] = "run"]
    /\ stack' = [stack EXCEPT
                   ![c] = <<Frame(Root(graph[c]), FirstArg(graph[c][Root(graph[c])]))>>]
    /\ visits' = [visits EXCEPT ![c] = [n \in 1..Len(graph[c]) |-> 0]]
    /\ UNCHANGED <<graph, memo, emitted, result, instance>>
    /\ UNCHANGED nonCompileVars

Top(c) == Head(stack[c])
TopOp(c) == graph[c][Top(c).n]

\* The next argument of the top frame has no fragment yet: translate it first.
Descend(c) ==
    /\ pc[c] = "run"
    /\ stack[c] # <<>>
    /\ Top(c).i <= Len(TopOp(c).args)
    /\ LET child == TopOp(c).args[Top(c).i]
       IN  /\ ~InMemo(c, child)
           /\ stack' = [stack EXCEPT
                          ![c] = <<Frame(child, FirstArg(graph[c][child])),
                                   Frame(Top(c).n, Top(c).i + 1)>> \o Tail(@)]
    /\ UNCHANGED <<graph, pc, memo, visits, emitted, result, instance>>
    /\ UNCHANGED nonCompileVars

\* The next argument of the top frame is in the memo map: its fragment is reused.
Reuse(c) ==
    /\ pc[c] = "run"
    /\ stack[c] # <<>>
    /\ Top(c).i <= Len(TopOp(c).args)
    /\ InMemo(c, TopOp(c).args[Top(c).i])
    /\ stack' = [stack EXCEPT
                   ![c] = <<Frame(Top(c).n, Top(c).i + 1)>> \o Tail(@)]
    /\ UNCHANGED <<graph, pc, memo, visits, emitted, result, instance>>
    /\ UNCHANGED nonCompileVars

Kids(c, op) == [j \in 1..Len(op.args) |-> ChildFrag(c, op.args[j])]

\* The visitor of the top frame's node runs and returns a fragment.
VisitOk(c) ==
    /\ pc[c] = "run"
    /\ stack[c] # <<>>
    /\ Top(c).i > Len(TopOp(c).args)
    /\ \E clk \in Clocks :
          LET out == VisitNode(graph[c], TopOp(c), Kids(c, TopOp(c)), clk)
          IN  /\ out.ok
              /\ memo' = (MemoKey(c, Top(c).n) :> out.frag) @@ memo
    /\ visits' = [visits EXCEPT ![c][Top(c).n] = @ + 1]
    /\ emitted' = [emitted EXCEPT ![c] = @ \cup {Top(c).n}]
    /\ stack' = [stack EXCEPT ![c] = Tail(@)]
    /\ UNCHANGED <<graph, pc, result, instance>>
    /\ UNCHANGED nonCompileVars

\* The visitor of the top frame's node raises: the call ends with the error.
VisitRaise(c) ==
    /\ pc[c] = "run"
    /\ stack[c] # <<>>
    /\ Top(c).i > Len(TopOp(c).args)
    /\ \E clk \in Clocks :
          LET out == VisitNode(graph[c], TopOp(c), Kids(c, TopOp(c)), clk)
          IN  /\ ~out.ok
              /\ result' = [result EXCEPT
                              ![c] = [status |-> "error", ast |-> NoFrag,
                                      sql |-> <<>>, err |-> out.err]]
    /\ visits' = [visits EXCEPT ![c][Top(c).n] = @ + 1]
    /\ memo' = DropCall(c)
    /\ stack' = [stack EXCEPT ![c] = <<>>]
    /\ pc' = [pc EXCEPT ![c] = "done"]
    /\ UNCHANGED <<graph, emitted, instance>>
    /\ UNCHANGED nonCompileVars

\* Every frame has returned: the root's fragment is rendered and returned.
Finish(c) ==
    /\ pc[c] = "run"
    /\ stack[c] = <<>>
    /\ LET ast == ChildFrag(c, Root(graph[c]))
       IN  result' = [result EXCEPT
                        ![c] = [status |-> "ok", ast |-> ast,
                                sql |-> Render(ast), err |-> NoErr]]
    /\ memo' = DropCall(c)
    /\ pc' = [pc EXCEPT ![c] = "done"]
    /\ UNCHANGED <<graph, stack, visits, emitted, instance>>
    /\ UNCHANGED nonCompileVars

-----------------------------------------------------------------------------
(* The type mapper (section 4.4) and DuckDB's schema introspection *)

Dialects == { "duckdb", "impala" }

LogicalType(tag, w, sc, nullable) ==
    [tag |-> tag, w |-> w, sc |-> sc, nullable |-> nullable]

NoType == LogicalType("none", 0, 0, TRUE)

\* The type from_string falls back to for an extension type name.
CatchAll(nullable) == LogicalType("unknown", 0, 0, nullable)

\* from_string failing with TypeMappingError.
TypeMappingError == LogicalType("TypeMappingError", 0, 0, TRUE)

\* The primitive logical types, with either nullability.
LogicalTypes ==
    UNION { { LogicalType("int", w, 0, nl) : w \in { 8, 16, 32, 64 } }
            \cup { LogicalType("uint", w, 0, nl) : w \in { 8, 16, 32, 64 } }
            \cup { LogicalType("float", w, 0, nl) : w \in { 32, 64 } }
            \cup UNION { { LogicalType("decimal", p, sc, nl) : sc \in 0..p } :
                         p \in 1..MaxPrecision }
            \cup { LogicalType(tag, 0, 0, nl) :
                     tag \in { "string", "binary", "boolean", "date", "time",
                               "timestamp", "uuid", "json" } } :
            nl \in BOOLEAN }

TypeString(name, params) == [name |-> name, params |-> params]

NoTypeString == TypeString("", <<>>)

\* to_string failing with UnsupportedBackendType.
UnsupportedBackendType == TypeString("UnsupportedBackendType", <<>>)

\* The dialect's names of the parameterless types: <<tag, width, name>>.
TypeNames(d) ==
    IF d = "duckdb"
    THEN { <<"int", 8, "TINYINT">>, <<"int", 16, "SMALLINT">>,
           <<"int", 32, "INTEGER">>, <<"int", 64, "BIGINT">>,
           <<"uint", 8, "UTINYINT">>, <<"uint", 16, "USMALLINT">>,
           <<"uint", 32, "UINTEGER">>, <<"uint", 64, "UBIGINT">>,
           <<"float", 32, "FLOAT">>, <<"float", 64, "DOUBLE">>,
           <<"string", 0, "VARCHAR">>, <<"binary", 0, "BLOB">>,
           <<"boolean", 0, "BOOLEAN">>, <<"date", 0, "DATE">>,
           <<"time", 0, "TIME">>, <<"timestamp", 0, "TIMESTAMP">>,
           <<"uuid", 0, "UUID">>, <<"json", 0, "JSON">> }
    ELSE { <<"int", 8, "TINYINT">>, <<"int", 16, "SMALLINT">>,
           <<"int", 32, "INT">>, <<"int", 64, "BIGINT">>,
           <<"float", 32, "FLOAT">>, <<"float", 64, "DOUBLE">>,
           <<"string", 0, "STRING">>, <<"binary", 0, "BINARY">>,
           <<"boolean", 0, "BOOLEAN">>, <<"date", 0, "DATE">>,
           <<"timestamp", 0, "TIMESTAMP">> }

\* Other names the dialect's driver reports for a type: <<name, tag, width>>.
TypeAliases(d) ==
    IF d = "duckdb"
    THEN { <<"INT4", "int", 32>>, <<"INT8", "int", 64>>,
           <<"TEXT", "string", 0>>, <<"BYTEA", "binary", 0>>,
           <<"BOOL", "boolean", 0>>, <<"FLOAT8", "float", 64>> }
    ELSE { <<"INTEGER", "int", 32>>, <<"VARCHAR", "string", 0>>,
           <<"REAL", "float", 64>> }

\* Extension type names from_string tolerates.
ExtensionTypeNames == { "GEOMETRY", "POINT_2D", "LINESTRING_2D", "POLYGON_2D" }

\* to_string: the dialect's type syntax of a logical type, parameters
\* included; the nullability is not part of it.
to_string(d, t) ==
    IF t.tag = "decimal"
    THEN TypeString("DECIMAL", <<t.w, t.sc>>)
    ELSE LET hits == { e \in TypeNames(d) : e[1] = t.tag /\ e[2] = t.w }
         IN  IF hits = {} THEN UnsupportedBackendType
             ELSE TypeString((CHOOSE e \in hits : TRUE)[3], <<>>)

\* from_string: the logical type of a dialect type string, with the
\* nullability the caller gives.
from_string(d, str, nullable) ==
    IF str.name = "DECIMAL" /\ Len(str.params) = 2
    THEN LogicalType("decimal", str.params[1], str.params[2], nullable)
    ELSE LET named == { e \in TypeNames(d) : e[3] = str.name }
             alias == { e \in TypeAliases(d) : e[1] = str.name }
         IN  IF named # {} /\ str.params = <<>>
             THEN LET e == CHOOSE e \in named : TRUE
                  IN  LogicalType(e[1], e[2], 0, nullable)
             ELSE IF alias # {} /\ str.params = <<>>
             THEN LET e == CHOOSE e \in alias : TRUE
                  IN  LogicalType(e[2], e[3], 0, nullable)
             ELSE IF str.name \in ExtensionTypeNames
             THEN CatchAll(nullable)
             ELSE TypeMappingError

Row(typ, null) == [column_type |-> typ, null |-> null]

NoRow == Row(NoTypeString, "")

\* get_schema without the nullable argument: from_string's default applies.
get_schemaDefaultNullable(d, row) ==
    from_string(d, row.column_type, TRUE)

\* duckdb/__init__.py get_schema, for one column of the DESCRIBE result.
get_schema(d, row) ==
    from_string(d, row.column_type, row.null = "YES")

\* The column's type is rendered for a DDL statement (or a UDF signature).
Declare ==
    /\ mapper.pc = "init"
    /\ LET str == to_string(mapper.dialect, mapper.ty)
       IN  mapper' = IF str = UnsupportedBackendType
                     THEN [mapper EXCEPT !.pc = "rejected"]
                     ELSE [mapper EXCEPT !.pc = "declared", !.ddl = str]
    /\ UNCHANGED <<compileVars, names, query, duck, sliced, utilVars>>

\* The driver describes the column: its type string and "YES" or "NO".
Describe ==
    /\ mapper.pc = "declared"
    /\ mapper' = [mapper EXCEPT
                    !.pc = "described",
                    !.row = Row(mapper.ddl,
                                IF mapper.ty.nullable THEN "YES" ELSE "NO")]
    /\ UNCHANGED <<compileVars, names, query, duck, sliced, utilVars>>

\* get_schema turns the driver's report into the column's logical type.
GetSchema ==
    /\ mapper.pc = "described"
    /\ mapper' = [mapper EXCEPT
                    !.pc = "parsed",
                    !.parsed = get_schema(mapper.dialect, mapper.row)]
    /\ UNCHANGED <<compileVars, names, query, duck, sliced, utilVars>>

-----------------------------------------------------------------------------
(* util.py gen_name *)

RECURSIVE Pow2(_)
Pow2(n) == IF n = 0 THEN 1 ELSE 2 * Pow2(n - 1)

RECURSIVE Pow32(_)
Pow32(n) == IF n = 0 THEN 1 ELSE 32 * Pow32(n - 1)

\* The values uuid4 can return.
Uuids == 0..(Pow2(UuidBits) - 1)

B32Alphabet ==
    << "A", "B", "C", "D", "E", "F", "G", "H", "I", "J", "K", "L", "M", "N",
       "O", "P", "Q", "R", "S", "T", "U", "V", "W", "X", "Y", "Z", "2", "3",
       "4", "5", "6", "7" >>

LowerAlphabet ==
    << "a", "b", "c", "d", "e", "f", "g", "h", "i", "j", "k", "l", "m", "n",
       "o", "p", "q", "r", "s", "t", "u", "v", "w", "x", "y", "z", "2", "3",
       "4", "5", "6", "7" >>

\* The number of base-32 digits of a uuid: one for every five bits.
B32Digits == (UuidBits + 4) \div 5

\* base64.b32encode of the uuid's bytes: five bits a character, the last
\* group filled with zero bits, the text filled with "=" up to a multiple
\* of eight characters.
B32Encode(u) ==
    LET v == u * Pow2(5 * B32Digits - UuidBits)
        pad == (8 - (B32Digits % 8)) % 8
    IN  [i \in 1..B32Digits |->
            B32Alphabet[((v \div Pow32(B32Digits - i)) % 32) + 1]]
        \o [i \in 1..pad |-> "="]

RECURSIVE RStripPad(_)
\* str.rstrip("=")
RStripPad(str) ==
    IF str # <<>> /\ str[Len(str)] = "="
    THEN RStripPad(SubSeq(str, 1, Len(str) - 1))
    ELSE str

\* str.lower()
Lower(str) ==
    [i \in 1..Len(str) |->
        IF \E k \in 1..32 : B32Alphabet[k] = str[i]
        THEN LowerAlphabet[CHOOSE k \in 1..32 : B32Alphabet[k] = str[i]]
        ELSE str[i]]

\* The namespaces duckdb/__init__.py passes to gen_name (three of them).
Namespaces ==
    { <<"d", "u", "c", "k", "d", "b", "_", "t", "a", "b", "l", "e">>,
      <<"r", "e", "a", "d", "_", "j", "s", "o", "n">>,
      <<"r", "e", "a", "d", "_", "c", "s", "v">> }

\* gen_name leaving the namespace out of the identifier.
gen_nameNoNamespace(namespace, u) ==
    <<"i", "b", "i", "s", "_">> \o Lower(RStripPad(B32Encode(u)))

\* util.py gen_name; u is the value uuid.uuid4() returns to this call.
gen_name(namespace, u) ==
    <<"i", "b", "i", "s", "_">> \o namespace \o <<"_">>
    \o Lower(RStripPad(B32Encode(u)))

\* A caller obtains an identifier; uuid4 draws any value.
GenName(c) ==
    /\ Len(names) < MaxNames
    /\ \E ns \in Namespaces : \E u \in Uuids :
          names' = Append(names, [c |-> c, ns |-> ns, uuid |-> u,
                                  name |-> gen_name(ns, u)])
    /\ UNCHANGED <<compileVars, mapper, query, duck, sliced, utilVars>>

-----------------------------------------------------------------------------
(* The rewrite pipeline around code generation (section 4.2): the ordered  *)
(* pre-rewrites, the lowering of Sample, code generation, the post-rewrites *)

\* A relation of the generated AST: a select statement or a physical table.
\* src holds the relation selected from (none for a physical table).
Select(cols, distinct, src, order, win, sample) ==
    [tag |-> "select", cols |-> cols, distinct |-> distinct, src |-> src,
     order |-> order, win |-> win, sample |-> sample]

NoWindow == [func |-> "", order_by |-> <<>>, spec |-> ""]

WindowFunction(func, order_by, spec) ==
    [func |-> func, order_by |-> order_by, spec |-> spec]

PhysicalTable(name, sample) ==
    [tag |-> "table", cols |-> <<name>>, distinct |-> FALSE, src |-> <<>>,
     order |-> <<>>, win |-> NoWindow, sample |-> sample]

NoRelation == PhysicalTable("", "")

NoSample == [method |-> "", parent |-> ""]

Sample(method, parent) == [method |-> method, parent |-> parent]

\* The IR of a query over table t(a, b).
QueryIR(select, distinct, order, win, sample) ==
    [select |-> select, distinct |-> distinct, order |-> order, win |-> win,
     sample |-> sample]

NoQueryIR == QueryIR(<<>>, FALSE, <<>>, NoWindow, NoSample)

\* The frame a window function is generated with before minimization.
DefaultFrame == "ROWS BETWEEN UNBOUNDED PRECEDING AND UNBOUNDED FOLLOWING"

NoSpec == ""

\* The window functions of the queries, and their classes.
Analytic == { "RowNumber", "Lag", "First", "Last", "FirstValue", "LastValue",
              "NthValue" }

WindowFuncs == { "RowNumber", "Lag", "First", "Sum" }

\* The function classes whose result depends on the ordering of the window.
RequiresOrdering == Analytic

\* _minimize_spec stripping the spec of every analytic function.
minimize_specAll(op, spec) ==
    IF op.func \in Analytic THEN NoSpec ELSE spec

\* impala.py _minimize_spec; spec is the frame of the generated window.
minimize_spec(op, spec) ==
    IF op.func \in Analytic
       /\ op.func \notin { "First", "Last", "FirstValue", "LastValue", "NthValue" }
    THEN NoSpec
    ELSE spec

\* The queries compiled.
QueryIRs ==
    { QueryIR(sel, d, o, w, sm) :
        sel \in { <<"a">>, <<"a", "b">> },
        d \in BOOLEAN,
        o \in { <<>>, <<"a">>, <<"b">> },
        w \in {NoWindow} \cup
              { WindowFunction(f, ob, DefaultFrame) :
                  f \in WindowFuncs, ob \in { <<>>, <<"a">> } },
        sm \in {NoSample} \cup
               { Sample(m, par) : m \in { "block", "row" },
                                  par \in { "table", "derived" } } }

\* The ordering key the window rewrite injects.
InjectedOrderKey == "NULL"

\* The pre-rewrite of a window function without explicit ordering.
rewrite_empty_order_by_window(ir) ==
    IF ir.win # NoWindow /\ ir.win.order_by = <<>>
    THEN [ir EXCEPT !.win.order_by = <<InjectedOrderKey>>]
    ELSE ir

\* The dialect-agnostic pre-rewrites of the base compiler.
BaseRewrites == << "base_rewrites" >>

\* rewrites holding the base compiler's rewrites only.
rewritesBaseOnly == BaseRewrites

\* impala.py rewrites
rewrites == << "rewrite_empty_order_by_window" >> \o BaseRewrites

\* post_rewrites holding no rewrite.
post_rewritesNone == << >>

\* impala.py post_rewrites
post_rewrites == << "split_select_distinct_with_order_by" >>

\* LOWERED_OPS allowing Sample over any relation.
LOWERED_OPS_AnyRelation ==
    [Sample |-> [supported_methods |-> { "block" },
                 physical_tables_only |-> FALSE]]

\* impala.py LOWERED_OPS
LOWERED_OPS ==
    [Sample |-> [supported_methods |-> { "block" },
                 physical_tables_only |-> TRUE]]

\* One pre-rewrite applied to the IR.  The base rewrites leave the parts of
\* a query modelled here as they are.
ApplyRewrite(name, ir) ==
    IF name = "rewrite_empty_order_by_window"
    THEN rewrite_empty_order_by_window(ir)
    ELSE ir

\* The lowering of Sample under a policy: the dialect primitive, or an error.
lower_sample(policy, sample) ==
    IF sample.method \notin policy.supported_methods
    THEN Raise(Err("UnsupportedOperationError", "Sample", Dialect,
                   "sampling method is not supported"))
    ELSE IF policy.physical_tables_only /\ sample.parent # "table"
    THEN Raise(Err("UnsupportedOperationError", "Sample", Dialect,
                   "only physical tables can be sampled"))
    ELSE Ok(Frag("tablesample", "TABLESAMPLE SYSTEM", sample.parent, <<>>))

\* Code generation of a query: the select statement of the IR.
Codegen(ir, sampled) ==
    LET base == PhysicalTable("t", IF ir.sample.parent = "table" THEN sampled ELSE "")
        from == IF ir.sample.parent = "derived"
                THEN Select(<<"a", "b">>, FALSE, <<base>>, <<>>, NoWindow, sampled)
                ELSE base
        win == IF ir.win = NoWindow THEN NoWindow
               ELSE WindowFunction(ir.win.func, ir.win.order_by,
                                   minimize_spec(ir.win, ir.win.spec))
    IN  Select(ir.select, ir.distinct, <<from>>, ir.order, win, "")

\* The post-rewrite of a select that is DISTINCT and ordered.
split_select_distinct_with_order_by(sel) ==
    IF sel.tag = "select" /\ sel.distinct /\ sel.order # <<>>
    THEN Select(<<"*">>, FALSE, << [sel EXCEPT !.order = <<>>] >>, sel.order,
                NoWindow, "")
    ELSE sel

ApplyPostRewrite(name, ast) ==
    IF name = "split_select_distinct_with_order_by"
    THEN split_select_distinct_with_order_by(ast)
    ELSE ast

RECURSIVE Commas(_, _)
\* The items of a list separated by commas.
Commas(items, i) ==
    IF i > Len(items) THEN <<>>
    ELSE <<items[i]>> \o (IF i < Len(items) THEN <<",">> ELSE <<>>)
         \o Commas(items, i + 1)

RenderWindow(win) ==
    IF win = NoWindow THEN <<>>
    ELSE <<",", win.func, "(", ")", "OVER", "(">>
         \o (IF win.order_by = <<>> THEN <<>>
             ELSE <<"ORDER", "BY">> \o Commas(win.order_by, 1))
         \o (IF win.spec = NoSpec THEN <<>> ELSE <<win.spec>>)
         \o <<")">>

RECURSIVE RenderSelect(_)
\* The SQL text of a relation, as a token sequence.
RenderSelect(rel) ==
    IF rel.tag = "table"
    THEN rel.cols \o (IF rel.sample = "" THEN <<>> ELSE <<rel.sample>>)
    ELSE <<"SELECT">> \o (IF rel.distinct THEN <<"DISTINCT">> ELSE <<>>)
         \o Commas(rel.cols, 1) \o RenderWindow(rel.win) \o <<"FROM">>
         \o (IF rel.src[1].tag = "table" THEN RenderSelect(rel.src[1])
             ELSE <<"(">> \o RenderSelect(rel.src[1]) \o <<")">>)
         \o (IF rel.sample = "" THEN <<>> ELSE <<rel.sample>>)
         \o (IF rel.order = <<>> THEN <<>>
             ELSE <<"ORDER", "BY">> \o Commas(rel.order, 1))

QueryOff ==
    [pc |-> "off", input |-> NoQueryIR, ir |-> NoQueryIR, i |-> 1, j |-> 1,
     log |-> <<>>, sampled |-> "", gen |-> NoRelation, ast |-> NoRelation,
     sql |-> <<>>, err |-> NoErr]

\* The next pre-rewrite of the dialect's list runs over the IR.
PreRewrite ==
    /\ query.pc = "ir"
    /\ query.i <= Len(rewrites)
    /\ query' = [query EXCEPT !.ir = ApplyRewrite(rewrites[query.i], @),
                              !.log = Append(@, rewrites[query.i]),
                              !.i = @ + 1]
    /\ UNCHANGED <<compileVars, mapper, names, duck, sliced, utilVars>>

\* The operations of LOWERED_OPS are lowered; a Sample the policy does not
\* allow ends the compilation with the error.
LowerOps ==
    /\ query.pc = "ir"
    /\ query.i > Len(rewrites)
    /\ LET out == IF query.ir.sample = NoSample THEN Ok(NoFrag)
                  ELSE lower_sample(LOWERED_OPS.Sample, query.ir.sample)
       IN  query' = IF out.ok
                    THEN [query EXCEPT !.pc = "lowered",
                                       !.sampled = IF out.frag = NoFrag THEN ""
                                                   ELSE out.frag.f,
                                       !.log = Append(@, "lower")]
                    ELSE [query EXCEPT !.pc = "failed", !.err = out.err,
                                       !.log = Append(@, "lower")]
    /\ UNCHANGED <<compileVars, mapper, names, duck, sliced, utilVars>>

\* Code generation: the IR becomes the dialect AST.
Generate ==
    /\ query.pc = "lowered"
    /\ LET ast == Codegen(query.ir, query.sampled)
       IN  query' = [query EXCEPT !.pc = "generated", !.gen = ast, !.ast = ast,
                                  !.log = Append(@, "codegen")]
    /\ UNCHANGED <<compileVars, mapper, names, duck, sliced, utilVars>>

\* The next post-rewrite of the dialect's list runs over the generated AST.
PostRewrite ==
    /\ query.pc = "generated"
    /\ query.j <= Len(post_rewrites)
    /\ query' = [query EXCEPT !.ast = ApplyPostRewrite(post_rewrites[query.j], @),
                              !.log = Append(@, post_rewrites[query.j]),
                              !.j = @ + 1]
    /\ UNCHANGED <<compileVars, mapper, names, duck, sliced, utilVars>>

\* The AST is rendered and returned.
ReturnQuery ==
    /\ query.pc = "generated"
    /\ query.j > Len(post_rewrites)
    /\ query' = [query EXCEPT !.pc = "done", !.sql = RenderSelect(query.ast)]
    /\ UNCHANGED <<compileVars, mapper, names, duck, sliced, utilVars>>

-----------------------------------------------------------------------------
(* duckdb/__init__.py create_table: the statements it sends to the database *)

\* Schemas: sequences of <<column, type>>.
SchemaX == << <<"x", "int64">> >>
SchemaY == << <<"y", "string">> >>
SchemaNull == << <<"z", "null">> >>

NoSchema == << >>

\* null_fields finding no column.
null_fieldsNone(schema) == {}

\* schema.null_fields: the columns of type NULL.
null_fields(schema) ==
    { schema[i][1] : i \in { k \in 1..Len(schema) : schema[k][2] = "null" } }

Columns(schema) == [i \in 1..Len(schema) |-> schema[i][1]]

\* The data passed as obj: its schema and its rows.
Obj(schema, rows) == [schema |-> schema, rows |-> rows]

NoObj == Obj(NoSchema, "")

Objs == { NoObj, Obj(SchemaX, "rows x"), Obj(SchemaY, "rows y"),
          Obj(SchemaNull, "rows z") }

Schemas == { NoSchema, SchemaX, SchemaY, SchemaNull }

\* The database argument: none, or a path that names a catalog.
Databases == { "", "other.main" }

\* table_loc.catalog of _to_sqlglot_table(database)
LocCatalog(database) == IF database = "other.main" THEN "other" ELSE ""

current_catalog == "memory"

TableName == << "t" >>

\* A table of the database: its schema and its rows.
Table(schema, rows) == [schema |-> schema, rows |-> rows]

OldTable == Table(SchemaY, "old rows")

Put(tables, key, tbl) ==
    [k \in DOMAIN tables \cup {key} |-> IF k = key THEN tbl ELSE tables[k]]

Del(tables, key) ==
    [k \in DOMAIN tables \ {key} |-> tables[k]]

\* The tables a database can hold before the call: table t in any of the
\* catalogs, and a table under a name gen_name can return.
EarlierKeys ==
    { <<"memory", TableName>>, <<"temp", TableName>>, <<"other", TableName>>,
      <<"memory", gen_name(<<"d", "u", "c", "k", "d", "b", "_", "t", "a", "b", "l", "e">>, 0)>> }

Args(obj, schema, database, temp, overwrite) ==
    [name |-> TableName, obj |-> obj, schema |-> schema, database |-> database,
     temp |-> temp, overwrite |-> overwrite]

NoArgs == Args(NoObj, NoSchema, "", FALSE, FALSE)

NoPlan ==
    [catalog |-> "", temp_name |-> <<>>, schema |-> NoSchema, query |-> NoObj]

DuckOff ==
    [pc |-> "off", tables |-> <<>>, before |-> <<>>, args |-> NoArgs,
     plan |-> NoPlan, stmts |-> <<>>, hooks |-> FALSE, err |-> ""]

\* The statement kinds that create, fill, remove or rename a table.
TableStatements == { "CREATE", "INSERT", "DROP", "ALTER" }

\* create_table up to its first statement: the checks of the arguments, the
\* pre-execute hooks, the name of the table created first.  u is the value
\* uuid4 returns to gen_name.
CreateTable ==
    /\ duck.pc = "idle"
    /\ \E obj \in Objs, schema \in Schemas, database \in Databases,
          temp \in BOOLEAN, overwrite \in BOOLEAN, u \in Uuids :
          LET args == Args(obj, schema, database, temp, overwrite)
              sch == IF schema = NoSchema THEN obj.schema ELSE schema
              catalog == IF temp THEN "temp"
                         ELSE IF LocCatalog(database) # "" THEN LocCatalog(database)
                         ELSE current_catalog
              temp_name ==
                  IF overwrite
                  THEN gen_name(<<"d", "u", "c", "k", "d", "b", "_", "t", "a", "b", "l", "e">>, u)
                  ELSE args.name
              started == [duck EXCEPT !.args = args, !.before = duck.tables]
          IN  duck' =
                IF LocCatalog(database) # "" /\ temp
                THEN [started EXCEPT !.pc = "raised",
                                     !.err = "UnsupportedArgumentError"]
                ELSE IF obj = NoObj /\ schema = NoSchema
                THEN [started EXCEPT !.pc = "raised", !.err = "ValueError"]
                ELSE IF null_fields(sch) # {}
                THEN [started EXCEPT !.pc = "raised", !.err = "IbisTypeError",
                                     !.hooks = obj # NoObj]
                ELSE [started EXCEPT
                        !.pc = "create",
                        !.hooks = obj # NoObj,
                        !.plan = [catalog |-> catalog, temp_name |-> temp_name,
                                  schema |-> sch, query |-> obj]]
    /\ UNCHANGED <<compileVars, mapper, names, query, sliced, utilVars>>

initial_table == <<duck.plan.catalog, duck.plan.temp_name>>

final_table == <<duck.plan.catalog, duck.args.name>>

\* The CREATE of a call that drops final_table before it writes anything.
ExecCreateDropFirst ==
    /\ duck.pc = "create"
    /\ duck' =
         IF initial_table \in DOMAIN duck.tables
         THEN [duck EXCEPT !.pc = "raised", !.err = "CatalogException",
                           !.tables = IF duck.args.overwrite
                                      THEN Del(@, final_table) ELSE @,
                           !.stmts = Append(@, "CREATE")]
         ELSE [duck EXCEPT
                 !.tables = Put(IF duck.args.overwrite
                                THEN Del(@, final_table) ELSE @,
                                initial_table, Table(duck.plan.schema, "")),
                 !.stmts = Append(@, "CREATE"),
                 !.pc = IF duck.plan.query # NoObj THEN "insert"
                        ELSE IF duck.args.overwrite THEN "drop"
                        ELSE "return"]
    /\ UNCHANGED <<compileVars, mapper, names, query, sliced, utilVars>>

\* CREATE TABLE initial_table (columns): fails when the table exists.
ExecCreate ==
    /\ duck.pc = "create"
    /\ duck' =
         IF initial_table \in DOMAIN duck.tables
         THEN [duck EXCEPT !.pc = "raised", !.err = "CatalogException",
                           !.stmts = Append(@, "CREATE")]
         ELSE [duck EXCEPT
                 !.tables = Put(@, initial_table, Table(duck.plan.schema, "")),
                 !.stmts = Append(@, "CREATE"),
                 !.pc = IF duck.plan.query # NoObj THEN "insert"
                        ELSE IF duck.args.overwrite THEN "drop"
                        ELSE "return"]
    /\ UNCHANGED <<compileVars, mapper, names, query, sliced, utilVars>>

\* INSERT INTO initial_table (table.columns) query: fails when the columns
\* of the data are not the columns of the table.
ExecInsert ==
    /\ duck.pc = "insert"
    /\ duck' =
         IF Columns(duck.plan.query.schema) # Columns(duck.plan.schema)
         THEN [duck EXCEPT !.pc = "raised", !.err = "BinderException",
                           !.stmts = Append(@, "INSERT")]
         ELSE [duck EXCEPT
                 !.tables = Put(@, initial_table,
                                Table(duck.plan.schema, duck.plan.query.rows)),
                 !.stmts = Append(@, "INSERT"),
                 !.pc = IF duck.args.overwrite THEN "drop" ELSE "return"]
    /\ UNCHANGED <<compileVars, mapper, names, query, sliced, utilVars>>

\* DROP TABLE IF EXISTS final_table
ExecDrop ==
    /\ duck.pc = "drop"
    /\ duck' = [duck EXCEPT !.tables = Del(@, final_table),
                            !.stmts = Append(@, "DROP"),
                            !.pc = IF duck.args.temp THEN "ctas" ELSE "rename"]
    /\ UNCHANGED <<compileVars, mapper, names, query, sliced, utilVars>>

\* CREATE TEMPORARY TABLE final_table AS SELECT * FROM initial_table
ExecCreateAs ==
    /\ duck.pc = "ctas"
    /\ duck' = [duck EXCEPT !.tables = Put(@, final_table, @[initial_table]),
                            !.stmts = Append(@, "CREATE"),
                            !.pc = "dropinitial"]
    /\ UNCHANGED <<compileVars, mapper, names, query, sliced, utilVars>>

\* DROP TABLE IF EXISTS initial_table
ExecDropInitial ==
    /\ duck.pc = "dropinitial"
    /\ duck' = [duck EXCEPT !.tables = Del(@, initial_table),
                            !.stmts = Append(@, "DROP"),
                            !.pc = "return"]
    /\ UNCHANGED <<compileVars, mapper, names, query, sliced, utilVars>>

\* The rename copying the table and leaving initial_table in place.
ExecRenameCopy ==
    /\ duck.pc = "rename"
    /\ duck' = [duck EXCEPT
                  !.tables = Put(@, final_table, @[initial_table]),
                  !.stmts = Append(@, "ALTER"),
                  !.pc = "return"]
    /\ UNCHANGED <<compileVars, mapper, names, query, sliced, utilVars>>

\* ALTER TABLE initial_table RENAME TO final_table
ExecRename ==
    /\ duck.pc = "rename"
    /\ duck' = [duck EXCEPT
                  !.tables = Del(Put(@, final_table, @[initial_table]),
                                 initial_table),
                  !.stmts = Append(@, "ALTER"),
                  !.pc = "return"]
    /\ UNCHANGED <<compileVars, mapper, names, query, sliced, utilVars>>

\* return self.table(name, ...)
ReturnTable ==
    /\ duck.pc = "return"
    /\ duck' = [duck EXCEPT !.pc = "returned"]
    /\ UNCHANGED <<compileVars, mapper, names, query, sliced, utilVars>>

-----------------------------------------------------------------------------
(* util.py slice_to_limit_offset *)

\* An optional integer: Python's None, or a value.
None == [none |-> TRUE, v |-> 0]

Some(k) == [none |-> FALSE, v |-> k]

Max(x, y) == IF x >= y THEN x ELSE y

Min(x, y) == IF x <= y THEN x ELSE y

PySlice(start, stop, step) == [start |-> start, stop |-> stop, step |-> step]

\* The outcome of the conversion: the pair (limit, offset), or ValueError.
Pair(limit, offset) == [ok |-> TRUE, limit |-> limit, offset |-> offset]

ValueError == [ok |-> FALSE, limit |-> None, offset |-> 0]

\* util.py slice_to_limit_offset; count is the number of rows of the table,
\* the value its count expression evaluates to.
slice_to_limit_offset(what, count) ==
    IF ~what.step.none /\ what.step.v # 1
    THEN ValueError
    ELSE
    LET start == what.start
        stop == what.stop
    IN  IF start.none \/ start.v >= 0
        THEN LET offset == IF start.none THEN 0 ELSE start.v
             IN  IF stop.none THEN Pair(None, offset)
                 ELSE IF stop.v = 0 THEN Pair(Some(0), offset)
                 ELSE IF stop.v < 0
                 THEN Pair(Some(count + (stop.v - offset)), offset)
                 ELSE Pair(Some(Max(stop.v - offset, 0)), offset)
        ELSE LET offset == count + start.v
             IN  IF stop.none THEN Pair(Some(-start.v), offset)
                 ELSE IF stop.v = 0 THEN Pair(Some(0), 0)
                 ELSE IF stop.v < 0
                 THEN LET limit == Max(stop.v - start.v, 0)
                      IN  Pair(Some(limit), IF limit = 0 THEN 0 ELSE offset)
                 ELSE Pair(Some(Max((stop.v - start.v) - count, 0)), offset)

\* The slices converted and the sizes of the tables.
Indexes == {None} \cup { Some(k) : k \in -MaxIndex..MaxIndex }

Steps == { None, Some(1), Some(2), Some(0), Some(-1) }

SlicedOff ==
    [pc |-> "off", what |-> PySlice(None, None, None), count |-> 0,
     out |-> ValueError]

\* The conversion of one slice for a table of count rows.
SliceToLimitOffset ==
    /\ sliced.pc = "init"
    /\ sliced' = [sliced EXCEPT
                    !.pc = "done",
                    !.out = slice_to_limit_offset(sliced.what, sliced.count)]
    /\ UNCHANGED <<compileVars, mapper, names, query, duck, utilVars>>


-----------------------------------------------------------------------------
(* convert_unit (util.py) *)

units == << "W", "D", "h", "m", "s", "ms", "us", "ns" >>

factors == << 7, 24, 60, 60, 1000, 1000, 1000 >>

monthly_units == << "Y", "Q", "M" >>

monthly_factors == << 4, 3 >>

\* tuple.index: the position of x counted from 0, or -1 for the ValueError.
index(tuple, x) ==
    IF \E k \in 1..Len(tuple) : tuple[k] = x
    THEN (CHOOSE k \in 1..Len(tuple) : tuple[k] = x) - 1
    ELSE -1

\* Python's integers have no largest value and the factor from weeks to
\* nanoseconds is 604800 * 1000^3: an integer is kept as m * 1000^e.
Big(m, e) == [m |-> m, e |-> e]

\* The largest integer the arithmetic here is carried out in.
MaxInt == 2^30 + (2^30 - 1)

\* x * y for a factor y of the tuples.
BigMul(x, y) == IF y = 1000 THEN Big(x.m, x.e + 1) ELSE Big(x.m * y, x.e)

\* functools.reduce(operator.mul, seq, 1)
RECURSIVE reduce_mul(_)
reduce_mul(seq) ==
    IF seq = <<>> THEN Big(1, 0)
    ELSE BigMul(reduce_mul(SubSeq(seq, 1, Len(seq) - 1)), seq[Len(seq)])

\* The integer m * 1000^e where it is below MaxInt, else 0.
RECURSIVE BigInt(_)
BigInt(x) ==
    IF x.e = 0 THEN x.m
    ELSE IF x.m > MaxInt \div 1000 THEN 0
    ELSE BigInt(Big(x.m * 1000, x.e - 1))

\* operator.floordiv(v, factor) for an integer v below MaxInt: the quotient
\* rounded down, which is 0 or -1 for a factor above MaxInt.
floordiv(v, factor) ==
    IF BigInt(factor) # 0 THEN v \div BigInt(factor)
    ELSE IF v >= 0 THEN 0 ELSE -1

\* A value: a Python integer m * 1000^e, the float num / (fm * 1000^fe) of a
\* true division, an ibis node (it has to_expr) or a sqlglot expression (it
\* has none); op is the operation applied to a node or an expression.
Number(m, e) ==
    [kind |-> "int", m |-> m, e |-> e, op |-> "", fm |-> 1, fe |-> 0]

Quotient(v, factor) ==
    [kind |-> "float", m |-> v, e |-> 0, op |-> "truediv",
     fm |-> factor.m, fe |-> factor.e]

Operand(kind) ==
    [kind |-> kind, m |-> 0, e |-> 0, op |-> "", fm |-> 1, fe |-> 0]

\* op(value.to_expr(), factor).op(), or op(value, factor) on AttributeError
Apply(op, value, factor) ==
    IF value.kind # "int"
    THEN [value EXCEPT !.op = op, !.fm = factor.m, !.fe = factor.e]
    ELSE IF op = "mul" THEN Number(value.m * factor.m, factor.e)
    ELSE IF op = "floordiv" THEN Number(floordiv(value.m, factor), 0)
    ELSE Quotient(value.m, factor)

Returned(value) == [raised |-> "", value |-> value]

Raised(cls) == [raised |-> cls, value |-> Operand("none")]

\* The conversion that leaves the last factor of the slice out.
convert_fromShort(value, i, j, fs, floor) ==
    LET factor == reduce_mul(SubSeq(fs, Min(i, j) + 1, Max(i, j) - 1))
    IN  IF i < j THEN Returned(Apply("mul", value, factor))
        ELSE Returned(Apply(IF floor THEN "floordiv" ELSE "truediv",
                            value, factor))

\* The slice factors[min(i, j) : max(i, j)] multiplied, the assertions and
\* the operation.
convert_from(value, i, j, fs, floor) ==
    LET factor == reduce_mul(SubSeq(fs, Min(i, j) + 1, Max(i, j)))
    IN  IF ~(factor.m > 1 \/ factor.e > 0) THEN Raised("AssertionError")
        ELSE IF i < j THEN Returned(Apply("mul", value, factor))
        ELSE IF ~(i > j) THEN Raised("AssertionError")
        ELSE Returned(Apply(IF floor THEN "floordiv" ELSE "truediv",
                            value, factor))

convert_unit(value, unit, to, floor) ==
    IF unit = to THEN Returned(value)
    ELSE IF index(units, unit) >= 0 /\ index(units, to) >= 0
    THEN convert_from(value, index(units, unit), index(units, to),
                      factors, floor)
    ELSE IF index(monthly_units, unit) >= 0 /\ index(monthly_units, to) >= 0
    THEN convert_from(value, index(monthly_units, unit),
                      index(monthly_units, to), monthly_factors, floor)
    ELSE Raised("ValueError")

\* The units, the values and the callers' operands: an ibis node, or the
\* sqlglot expression visit_TimestampFromUNIX passes.
Units ==
    { units[k] : k \in 1..Len(units) }
    \cup { monthly_units[k] : k \in 1..Len(monthly_units) }
    \cup { "ps" }

Values ==
    { Number(k * s, 0) : k \in -MaxValue..MaxValue, s \in { 1, 60, 1000 } }
    \cup { Operand("node"), Operand("sql") }

ConvertedOff ==
    [pc |-> "off", value |-> Operand("none"), unit |-> "", to |-> "",
     floor |-> TRUE, out |-> Raised("")]

\* One call of convert_unit.
ConvertUnit ==
    /\ converted.pc = "init"
    /\ converted' = [converted EXCEPT
                       !.pc = "done",
                       !.out = convert_unit(converted.value, converted.unit,
                                            converted.to, converted.floor)]
    /\ UNCHANGED <<compileVars, mapper, names, query, duck, sliced,
                   chunked, indexed, rbr, ext, casted>>

-----------------------------------------------------------------------------
(* chunks (util.py) *)

\* The pair with the end not cut off at n.
chunkUncut(start, chunk_size, n) == << start, start + chunk_size >>

\* (start, min(start + chunk_size, n))
chunk(start, chunk_size, n) == << start, Min(start + chunk_size, n) >>

ChunkedOff ==
    [pc |-> "off", n |-> 0, chunk_size |-> 0, start |-> 0, out |-> <<>>]

\* The call: range(0, n, chunk_size) is made, and raises ValueError for a
\* step of 0; the generator is returned.
Chunks ==
    /\ chunked.pc = "init"
    /\ chunked' = [chunked EXCEPT
                     !.pc = IF chunked.chunk_size = 0 THEN "ValueError"
                            ELSE "generator",
                     !.start = 0]
    /\ UNCHANGED <<compileVars, mapper, names, query, duck, sliced,
                   converted, indexed, rbr, ext, casted>>

\* The range has a next start below n (above n for a negative step).
InRange ==
    IF chunked.chunk_size > 0 THEN chunked.start < chunked.n
    ELSE chunked.start > chunked.n

\* next() on the generator yields the pair of the range's next start.
ChunksYield ==
    /\ chunked.pc = "generator"
    /\ InRange
    /\ chunked' = [chunked EXCEPT
                     !.out = Append(@, chunk(chunked.start, chunked.chunk_size,
                                             chunked.n)),
                     !.start = @ + chunked.chunk_size]
    /\ UNCHANGED <<compileVars, mapper, names, query, duck, sliced,
                   converted, indexed, rbr, ext, casted>>

\* next() on the generator raises StopIteration: the range is exhausted.
ChunksStop ==
    /\ chunked.pc = "generator"
    /\ ~InRange
    /\ chunked' = [chunked EXCEPT !.pc = "exhausted"]
    /\ UNCHANGED <<compileVars, mapper, names, query, duck, sliced,
                   converted, indexed, rbr, ext, casted>>

-----------------------------------------------------------------------------
(* StringValue.__getitem__ (expr/types/strings.py) *)

\* What a key or a bound of a slice can be: None, a Python int, an integer
\* scalar expression, or a str (a key of no listed kind).
PyNone == [kind |-> "None", v |-> 0]

PyInt(k) == [kind |-> "int", v |-> k]

IntegerScalar == [kind |-> "IntegerScalar", v |-> 0]

PyStr == [kind |-> "str", v |-> 0]

IsExpr(x) == x.kind = "IntegerScalar"

NoBounds == [start |-> PyNone, stop |-> PyNone, step |-> PyNone]

IndexKey(x) == [kind |-> x.kind, v |-> x.v, slice |-> NoBounds]

SliceKey(start, stop, step) ==
    [kind |-> "slice", v |-> 0,
     slice |-> [start |-> start, stop |-> stop, step |-> step]]

\* The outcomes: an expression, or an exception.
StringExpr(node, self, a, b) ==
    [raised |-> "", node |-> node, self |-> self, a |-> a, b |-> b]

KeyError(cls) ==
    [raised |-> cls, node |-> "", self |-> "", a |-> PyNone, b |-> PyNone]

\* ops.Substring(self, start, length).to_expr()
substr(self, start, length) == StringExpr("Substring", self, start, length)

\* StringValue.__getitem__(self, key)
getitem(self, key) ==
    IF key.kind = "slice"
    THEN LET start == key.slice.start
             stop == key.slice.stop
             step == key.slice.step
         IN  IF IsExpr(step) \/ (step # PyNone /\ step.v # 1)
             THEN KeyError("ValueError")
             ELSE IF start # PyNone /\ ~IsExpr(start) /\ start.v < 0
             THEN KeyError("ValueError")
             ELSE IF stop # PyNone /\ ~IsExpr(stop) /\ stop.v < 0
             THEN KeyError("ValueError")
             ELSE IF start = PyNone /\ stop = PyNone
             THEN StringExpr("self", self, PyNone, PyNone)
             ELSE StringExpr("StringSlice", self, start, stop)
    ELSE IF key.kind = "int" THEN substr(self, PyInt(key.v), PyInt(1))
    ELSE KeyError("NotImplementedError")

\* The string expressions indexed and the keys.
StringClasses == { "StringScalar", "StringColumn" }

SliceBounds == { PyNone, IntegerScalar } \cup { PyInt(k) : k \in -1..MaxKey }

Keys ==
    { IndexKey(PyInt(k)) : k \in -1..MaxKey }
    \cup { IndexKey(IntegerScalar), IndexKey(PyStr) }
    \cup { SliceKey(start, stop, step) :
             start \in SliceBounds, stop \in SliceBounds,
             step \in { PyNone, PyInt(1), PyInt(2), IntegerScalar } }

IndexedOff ==
    [pc |-> "off", self |-> "", key |-> IndexKey(PyNone),
     out |-> KeyError("")]

\* self[key]: StringColumn.__getitem__ calls StringValue.__getitem__.
GetItem ==
    /\ indexed.pc = "init"
    /\ indexed' = [indexed EXCEPT
                     !.pc = "done",
                     !.out = getitem(indexed.self, indexed.key)]
    /\ UNCHANGED <<compileVars, mapper, names, query, duck, sliced,
                   converted, chunked, rbr, ext, casted>>

-----------------------------------------------------------------------------
(* Backend._load_extensions (duckdb/__init__.py) *)

\* duckdb_extensions(): the extensions the engine knows, in the order of the
\* table, and the aliases of each.
ExtensionNames == << "spatial", "postgres_scanner" >>

Aliases(extension_name) ==
    IF extension_name = "postgres_scanner" THEN << "postgres" >> ELSE <<>>

\* The names a call can ask for: names, an alias, and a name the engine does
\* not list.
Requestable == { "spatial", "postgres_scanner", "postgres", "h3" }

\* list_intersect(list_append(aliases, extension_name), list_value(*extensions))
Matching(extension_name, extensions) ==
    SelectSeq(Append(Aliases(extension_name), extension_name),
              LAMBDA n : n \in extensions)

\* The rows of the query: one for each requested name of each extension that
\* is not both installed and loaded.
RECURSIVE not_installed_or_loaded(_, _, _, _)
not_installed_or_loaded(k, extensions, installed, loaded) ==
    IF k > Len(ExtensionNames) THEN <<>>
    ELSE LET e == ExtensionNames[k]
             found == Matching(e, extensions)
             rows == IF e \in installed /\ e \in loaded THEN <<>>
                     ELSE [r \in 1..Len(found) |->
                             [extension |-> found[r],
                              installed |-> e \in installed,
                              loaded |-> e \in loaded]]
         IN  rows \o not_installed_or_loaded(k + 1, extensions, installed, loaded)

\* "FORCE " * force_install + f"INSTALL '{extension}'"
Install(extension, force_install) ==
    (IF force_install THEN << "FORCE" >> ELSE <<>>) \o << "INSTALL", extension >>

\* f"LOAD '{extension}'"
Load(extension) == << "LOAD", extension >>

\* The INSTALL commands of a call that installs whatever is not loaded too.
InstallCommandsEager(rows, force_install) ==
    LET chosen == SelectSeq(rows, LAMBDA row : ~row.installed \/ ~row.loaded)
    IN  [k \in 1..Len(chosen) |-> Install(chosen[k].extension, force_install)]

\* The INSTALL commands: one for each row not installed.
InstallCommands(rows, force_install) ==
    LET chosen == SelectSeq(rows, LAMBDA row : ~row.installed)
    IN  [k \in 1..Len(chosen) |-> Install(chosen[k].extension, force_install)]

\* The LOAD commands: one for each row not loaded.
LoadCommands(rows) ==
    LET chosen == SelectSeq(rows, LAMBDA row : ~row.loaded)
    IN  [k \in 1..Len(chosen) |-> Load(chosen[k].extension)]

\* The extension a requested name stands for.
ExtensionOf(name) ==
    IF name = "postgres" THEN "postgres_scanner" ELSE name

\* The extensions the commands of one verb name.
Named(commands, verb) ==
    { ExtensionOf(commands[k][Len(commands[k])]) :
        k \in { i \in 1..Len(commands) :
                  commands[i][Len(commands[i]) - 1] = verb } }

NoCall ==
    [extensions |-> {}, force_install |-> FALSE, installed |-> {},
     loaded |-> {}, executed |-> FALSE, command |-> <<>>]

ExtOff ==
    [pc |-> "off", installed |-> {}, loaded |-> {}, calls |-> 0,
     last |-> NoCall]

\* The backend after _load_extensions(extensions, force_install): the query,
\* and if it has rows the one command string executed, after which the
\* extensions it names are installed and loaded.
load_extensions(backend, extensions, force_install) ==
    LET rows == not_installed_or_loaded(1, extensions, backend.installed,
                                        backend.loaded)
        commands == InstallCommands(rows, force_install) \o LoadCommands(rows)
        call == [extensions |-> extensions, force_install |-> force_install,
                 installed |-> backend.installed, loaded |-> backend.loaded,
                 executed |-> rows # <<>>, command |-> <<>>]
    IN  IF rows = <<>>
        THEN [backend EXCEPT !.calls = @ + 1, !.last = call]
        ELSE [backend EXCEPT
                !.calls = @ + 1,
                !.last = [call EXCEPT !.command = commands],
                !.installed = @ \cup Named(commands, "INSTALL"),
                !.loaded = @ \cup Named(commands, "LOAD")]

\* self.load_extension(extension, force_install)
load_extension(backend, extension, force_install) ==
    load_extensions(backend, {extension}, force_install)

\* One call of _load_extensions; the list of names is taken as the set of
\* its elements, which is all list_intersect keeps of it.
LoadExtensions ==
    /\ ext.pc = "idle"
    /\ ext.calls < MaxLoads
    /\ \E extensions \in SUBSET Requestable, force_install \in BOOLEAN :
          ext' = load_extensions(ext, extensions, force_install)
    /\ UNCHANGED <<compileVars, mapper, names, query, duck, sliced,
                   converted, chunked, indexed, rbr, casted>>

\* One call of load_extension.
LoadExtension ==
    /\ ext.pc = "idle"
    /\ ext.calls < MaxLoads
    /\ \E extension \in Requestable, force_install \in BOOLEAN :
          ext' = load_extension(ext, extension, force_install)
    /\ UNCHANGED <<compileVars, mapper, names, query, duck, sliced,
                   converted, chunked, indexed, rbr, casted>>

-----------------------------------------------------------------------------
(* Record batch readers (duckdb/__init__.py) *)

\* A physical table of an expression: t.name, and the database it is in.
PhysicalTableNode(name, database) == [name |-> name, database |-> database]

PhysicalTables ==
    { PhysicalTableNode("r", "main"), PhysicalTableNode("r", "other"),
      PhysicalTableNode("p", "main") }

\* expr.op().find(ops.PhysicalTable): the distinct table nodes of an
\* expression, and whether it has a geospatial operation.
Expressions ==
    { [tables |-> tables, geo |-> geo] :
        tables \in { << t >> : t \in PhysicalTables }
                   \cup { p \in PhysicalTables \X PhysicalTables :
                            p[1] # p[2] },
        geo \in BOOLEAN }

TableNames == { t.name : t \in PhysicalTables }

\* The flags after the loop over the first k tables, and the names warned
\* about, one for each warning.
RECURSIVE warn_consumed(_, _, _)
warn_consumed(flags, tables, k) ==
    IF k = 0 THEN [consumed |-> flags, warned |-> <<>>]
    ELSE LET before == warn_consumed(flags, tables, k - 1)
             name == tables[k].name
             started == IF name \in DOMAIN before.consumed
                        THEN before.consumed[name] ELSE FALSE
         IN  IF name \in DOMAIN before.consumed /\ started
             THEN [before EXCEPT !.warned = Append(@, name)]
             ELSE IF name \in DOMAIN before.consumed
             THEN [before EXCEPT !.consumed = Put(@, name, TRUE)]
             ELSE before

\* The operations on a backend, as logged: what was done, the name or the
\* tables it was done with, and the warnings it emitted.
Logged(op, name, tables, warned) ==
    [op |-> op, name |-> name, tables |-> tables, warned |-> warned]

\* _post_connect: self._record_batch_readers_consumed = {}
RbrOff == [pc |-> "off", consumed |-> <<>>, log |-> <<>>]

\* _pyarrow_rbr(source, table_name, _conn)
PyarrowRbr ==
    /\ rbr.pc = "idle"
    /\ Len(rbr.log) < MaxOps
    /\ \E table_name \in TableNames :
          rbr' = [rbr EXCEPT
                    !.consumed = Put(@, table_name, FALSE),
                    !.log = Append(@, Logged("_pyarrow_rbr", table_name,
                                             <<>>, <<>>))]
    /\ UNCHANGED <<compileVars, mapper, names, query, duck, sliced,
                   converted, chunked, indexed, ext, casted>>

\* _default(source, table_name, _conn): a table that is no reader.
RegisterDefault ==
    /\ rbr.pc = "idle"
    /\ Len(rbr.log) < MaxOps
    /\ \E table_name \in TableNames :
          rbr' = [rbr EXCEPT
                    !.log = Append(@, Logged("_default", table_name,
                                             <<>>, <<>>))]
    /\ UNCHANGED <<compileVars, mapper, names, query, duck, sliced,
                   converted, chunked, indexed, ext, casted>>

\* _run_pre_execute_hooks(expr): the loop over the tables, then the spatial
\* extension for a geospatial operation.
RunPreExecuteHooks ==
    /\ rbr.pc = "idle"
    /\ Len(rbr.log) < MaxOps
    /\ \E expr \in Expressions :
          LET after == warn_consumed(rbr.consumed, expr.tables,
                                     Len(expr.tables))
          IN  /\ rbr' = [rbr EXCEPT
                           !.consumed = after.consumed,
                           !.log = Append(@, Logged("_run_pre_execute_hooks",
                                                    "", expr.tables,
                                                    after.warned))]
              /\ ext' = IF expr.geo
                        THEN load_extension(ext, "spatial", FALSE)
                        ELSE ext
    /\ UNCHANGED <<compileVars, mapper, names, query, duck, sliced,
                   converted, chunked, indexed, casted>>

-----------------------------------------------------------------------------
(* ImpalaCompiler.visit_Cast (impala.py) *)

\* The logical types a cast goes from and to.
DataTypes ==
    { "int8", "int32", "int64", "uint16", "float64", "decimal", "string",
      "boolean", "date", "time", "timestamp" }

\* dtype.is_temporal()
is_temporal(dtype) == dtype \in { "date", "time", "timestamp" }

\* dtype.is_integer()
is_integer(dtype) == dtype \in { "int8", "int32", "int64", "uint16" }

\* super().visit_Cast(op, arg=arg, to=to): the default translation of a cast.
DefaultCast(arg, to) == Cast(arg, to)

\* 1_000_000 * self.f.unix_timestamp(arg)
UnixMicros(arg) == BinOp("*", Lit("1000000"), Func("unix_timestamp", <<arg>>))

\* visit_Cast converting whatever is cast to an integer.
visit_CastToInteger(from_, arg, to) ==
    IF is_integer(to) THEN UnixMicros(arg) ELSE DefaultCast(arg, to)

\* impala.py visit_Cast, from_ being op.arg.dtype
visit_Cast(from_, arg, to) ==
    IF is_temporal(from_) /\ is_integer(to)
    THEN UnixMicros(arg)
    ELSE DefaultCast(arg, to)

\* The compiled arguments of the casts: a column and a literal.
CastArguments == { Frag("column", "c", "", <<>>), Lit("x") }

CastedOff ==
    [pc |-> "off", from_ |-> "", to |-> "", arg |-> NoFrag, out |-> NoFrag]

\* One Cast node visited.
VisitCast ==
    /\ casted.pc = "init"
    /\ casted' = [casted EXCEPT
                    !.pc = "done",
                    !.out = visit_Cast(casted.from_, casted.arg, casted.to)]
    /\ UNCHANGED <<compileVars, mapper, names, query, duck, sliced,
                   converted, chunked, indexed, rbr, ext>>

-----------------------------------------------------------------------------
(* Specifications *)

MapperOff ==
    [pc |-> "off", dialect |-> "", ty |-> NoType, ddl |-> NoTypeString,
     row |-> NoRow, parsed |-> NoType]

InitCompile(second) ==
    /\ graph = [c \in Calls |-> <<>>]
    /\ pc = [c \in Calls |-> IF c = 1 THEN "build" ELSE second]
    /\ stack = [c \in Calls |-> <<>>]
    /\ memo = <<>>
    /\ visits = [c \in Calls |-> <<>>]
    /\ emitted = [c \in Calls |-> {}]
    /\ result = [c \in Calls |-> NoResult]
    /\ instance = <<>>

\* No compile call takes place.
CompileOff ==
    /\ graph = [c \in Calls |-> <<>>]
    /\ pc = [c \in Calls |-> "off"]
    /\ stack = [c \in Calls |-> <<>>]
    /\ memo = <<>>
    /\ visits = [c \in Calls |-> <<>>]
    /\ emitted = [c \in Calls |-> {}]
    /\ result = [c \in Calls |-> NoResult]
    /\ instance = <<>>

\* None of the helpers of util.py, strings.py and the DuckDB backend runs.
UtilOff ==
    /\ converted = ConvertedOff
    /\ chunked = ChunkedOff
    /\ indexed = IndexedOff
    /\ rbr = RbrOff
    /\ ext = ExtOff
    /\ casted = CastedOff

\* No type is mapped, no name generated, no query rewritten, no table
\* created and no slice converted.
CoreOff ==
    /\ mapper = MapperOff
    /\ names = <<>>
    /\ query = QueryOff
    /\ duck = DuckOff
    /\ sliced = SlicedOff

\* Nothing but the compile calls takes place.
OthersOff ==
    /\ CoreOff
    /\ UtilOff

Init ==
    /\ InitCompile("off")
    /\ OthersOff

InitConc ==
    /\ InitCompile("build")
    /\ OthersOff

InitTypes ==
    /\ CompileOff
    /\ mapper \in { [MapperOff EXCEPT !.pc = "init", !.dialect = d, !.ty = t] :
                      d \in Dialects, t \in LogicalTypes }
    /\ names = <<>>
    /\ query = QueryOff
    /\ duck = DuckOff
    /\ sliced = SlicedOff
    /\ UtilOff

InitNames ==
    /\ CompileOff
    /\ OthersOff

Next ==
    \E c \in Calls :
        \/ Build(c)
        \/ Freeze(c)
        \/ Start(c)
        \/ Descend(c)
        \/ Reuse(c)
        \/ VisitOk(c)
        \/ VisitRaise(c)
        \/ Finish(c)

NextTypes ==
    \/ Declare
    \/ Describe
    \/ GetSchema

NextNames ==
    \E c \in Calls : GenName(c)

InitQuery ==
    /\ CompileOff
    /\ mapper = MapperOff
    /\ names = <<>>
    /\ query \in { [QueryOff EXCEPT !.pc = "ir", !.input = ir, !.ir = ir] :
                     ir \in QueryIRs }
    /\ duck = DuckOff
    /\ sliced = SlicedOff
    /\ UtilOff

NextQuery ==
    \/ PreRewrite
    \/ LowerOps
    \/ Generate
    \/ PostRewrite
    \/ ReturnQuery

InitTable ==
    /\ CompileOff
    /\ mapper = MapperOff
    /\ names = <<>>
    /\ query = QueryOff
    /\ duck \in { [DuckOff EXCEPT !.pc = "idle",
                                  !.tables = [k \in keys |-> OldTable]] :
                    keys \in SUBSET EarlierKeys }
    /\ sliced = SlicedOff
    /\ UtilOff

NextTable ==
    \/ CreateTable
    \/ ExecCreate
    \/ ExecInsert
    \/ ExecDrop
    \/ ExecCreateAs
    \/ ExecDropInitial
    \/ ExecRename
    \/ ReturnTable

InitSlice ==
    /\ CompileOff
    /\ mapper = MapperOff
    /\ names = <<>>
    /\ query = QueryOff
    /\ duck = DuckOff
    /\ sliced \in { [SlicedOff EXCEPT !.pc = "init",
                                      !.what = PySlice(start, stop, step),
                                      !.count = n] :
                      start \in Indexes, stop \in Indexes, step \in Steps,
                      n \in 0..MaxRows }
    /\ UtilOff

NextSlice == SliceToLimitOffset

InitConvert ==
    /\ CompileOff
    /\ CoreOff
    /\ converted \in { [ConvertedOff EXCEPT !.pc = "init", !.value = v,
                                            !.unit = u, !.to = t, !.floor = f] :
                         v \in Values, u \in Units, t \in Units, f \in BOOLEAN }
    /\ chunked = ChunkedOff
    /\ indexed = IndexedOff
    /\ rbr = RbrOff
    /\ ext = ExtOff
    /\ casted = CastedOff

NextConvert == ConvertUnit

\* One convert_unit call.
SpecConvert == InitConvert /\ [][NextConvert]_vars

InitChunks ==
    /\ CompileOff
    /\ CoreOff
    /\ converted = ConvertedOff
    /\ chunked \in { [ChunkedOff EXCEPT !.pc = "init", !.n = n,
                                        !.chunk_size = c] :
                       n \in -1..MaxCount, c \in -1..MaxChunk }
    /\ indexed = IndexedOff
    /\ rbr = RbrOff
    /\ ext = ExtOff
    /\ casted = CastedOff

NextChunks ==
    \/ Chunks
    \/ ChunksYield
    \/ ChunksStop

\* One chunks generator run to its end.
SpecChunks == InitChunks /\ [][NextChunks]_vars

InitIndex ==
    /\ CompileOff
    /\ CoreOff
    /\ converted = ConvertedOff
    /\ chunked = ChunkedOff
    /\ indexed \in { [IndexedOff EXCEPT !.pc = "init", !.self = s, !.key = k] :
                       s \in StringClasses, k \in Keys }
    /\ rbr = RbrOff
    /\ ext = ExtOff
    /\ casted = CastedOff

NextIndex == GetItem

\* One string expression indexed by one key.
SpecIndex == InitIndex /\ [][NextIndex]_vars

\* A backend whose engine has any of its extensions installed or loaded (one
\* loaded from a file is loaded and not installed).
Backends ==
    { [ExtOff EXCEPT !.pc = "idle", !.installed = i, !.loaded = l] :
        i \in SUBSET { ExtensionNames[k] : k \in 1..Len(ExtensionNames) },
        l \in SUBSET { ExtensionNames[k] : k \in 1..Len(ExtensionNames) } }

InitExtensions ==
    /\ CompileOff
    /\ CoreOff
    /\ converted = ConvertedOff
    /\ chunked = ChunkedOff
    /\ indexed = IndexedOff
    /\ rbr = RbrOff
    /\ ext \in Backends
    /\ casted = CastedOff

NextExtensions ==
    \/ LoadExtensions
    \/ LoadExtension

\* Calls of _load_extensions and load_extension on one backend.
SpecExtensions == InitExtensions /\ [][NextExtensions]_vars

\* A backend just connected, its spatial extension not installed.
InitReaders ==
    /\ CompileOff
    /\ CoreOff
    /\ converted = ConvertedOff
    /\ chunked = ChunkedOff
    /\ indexed = IndexedOff
    /\ rbr = [RbrOff EXCEPT !.pc = "idle"]
    /\ ext = [ExtOff EXCEPT !.pc = "idle"]
    /\ casted = CastedOff

NextReaders ==
    \/ PyarrowRbr
    \/ RegisterDefault
    \/ RunPreExecuteHooks

\* Registrations and pre-execute hooks on one backend.
SpecReaders == InitReaders /\ [][NextReaders]_vars

InitCast ==
    /\ CompileOff
    /\ CoreOff
    /\ converted = ConvertedOff
    /\ chunked = ChunkedOff
    /\ indexed = IndexedOff
    /\ rbr = RbrOff
    /\ ext = ExtOff
    /\ casted \in { [CastedOff EXCEPT !.pc = "init", !.from_ = f, !.to = t,
                                      !.arg = a] :
                      f \in DataTypes, t \in DataTypes, a \in CastArguments }

NextCast == VisitCast

\* One Cast node compiled by the Impala compiler.
SpecCast == InitCast /\ [][NextCast]_vars

\* The frames a window is generated with.
Frames ==
    { DefaultFrame, "ROWS BETWEEN 1 PRECEDING AND CURRENT ROW",
      "RANGE BETWEEN UNBOUNDED PRECEDING AND CURRENT ROW" }

\* Queries with a window function of every class.
WindowQueryIRs ==
    { QueryIR(<<"a">>, d, <<>>, WindowFunction(f, ob, spec), NoSample) :
        d \in BOOLEAN,
        f \in Analytic \cup { "Sum", "Mean" },
        ob \in { <<>>, <<"a">> },
        spec \in Frames }

InitWindows ==
    /\ CompileOff
    /\ mapper = MapperOff
    /\ names = <<>>
    /\ query \in { [QueryOff EXCEPT !.pc = "ir", !.input = ir, !.ir = ir] :
                     ir \in WindowQueryIRs }
    /\ duck = DuckOff
    /\ sliced = SlicedOff
    /\ UtilOff

\* One query with a window function through the pipeline of the Impala
\* compiler.
SpecWindows == InitWindows /\ [][NextQuery]_vars

\* One compile call.
Spec == Init /\ [][Next]_vars

\* Two compile calls through the one compiler instance, interleaved.
SpecConc == InitConc /\ [][Next]_vars

\* A logical type rendered for DDL, reported by the driver and parsed back.
SpecTypes == InitTypes /\ [][NextTypes]_vars

\* Calls of gen_name by two callers.
SpecNames == InitNames /\ [][NextNames]_vars

\* One query through the rewrite pipeline of the Impala compiler.
SpecQuery == InitQuery /\ [][NextQuery]_vars

\* One create_table call on a DuckDB database that may hold tables already.
SpecTable == InitTable /\ [][NextTable]_vars

\* One slice converted for a table of some size.
SpecSlice == InitSlice /\ [][NextSlice]_vars

-----------------------------------------------------------------------------
(* Helpers of the properties *)

Done(c) == pc[c] = "done"

\* The visitor of node n of call c ran and raised (no fragment came of it).
RaisedAt(c, n) ==
    /\ n \in DOMAIN visits[c]
    /\ visits[c][n] > 0
    /\ n \notin emitted[c]

\* How many argument positions of the graph refer to node n.
RefCount(g, n) ==
    Cardinality({ jk \in (1..Len(g)) \X (1..3) :
                    /\ jk[2] <= Len(g[jk[1]].args)
                    /\ g[jk[1]].args[jk[2]] = n })

RECURSIVE Complete(_)
\* A fragment with no hole: no missing or uncompiled part anywhere in it.
Complete(frag) ==
    /\ frag.tag \notin { "none", "uncompiled" }
    /\ \A i \in 1..Len(frag.a) : Complete(frag.a[i])

DenialOf(kind) ==
    Err("UnsupportedOperationError", kind, Dialect, "operation is not supported")

-----------------------------------------------------------------------------
(* C1 *)

\* C1 as stated: whenever a compiled graph contains a node of a kind k of
\* UNSUPPORTED_OPS, the call fails with UnsupportedOperationError naming k and
\* the dialect, returns no SQL text, and no fragment was emitted for the node.
C1_DenialNamesEveryDeniedKind ==
    \A c \in Calls : \A n \in 1..Len(graph[c]) :
        (Done(c) /\ graph[c][n].kind \in UNSUPPORTED_OPS) =>
            /\ result[c].status = "error"
            /\ result[c].err = DenialOf(graph[c][n].kind)
            /\ result[c].sql = <<>>
            /\ n \notin emitted[c]

\* C1 amended: a compiled graph that contains a node of a kind k of
\* UNSUPPORTED_OPS fails and returns no SQL text; no fragment is ever emitted
\* for that node; and when the traversal reaches the node, the error is
\* UnsupportedOperationError naming k and the dialect (a node that fails
\* earlier in the traversal ends the call with its own error instead).
C1_DeniedKindFails ==
    \A c \in Calls : \A n \in 1..Len(graph[c]) :
        graph[c][n].kind \in UNSUPPORTED_OPS =>
            /\ n \notin emitted[c]
            /\ ~InMemo(c, n)
            /\ Done(c) =>
                  /\ result[c].status = "error"
                  /\ result[c].sql = <<>>
                  /\ result[c].ast = NoFrag
                  /\ visits[c][n] > 0 =>
                        result[c].err = DenialOf(graph[c][n].kind)

\* A denied node below the root, reached after other nodes were compiled.
C1_Witness ==
    \E n \in 1..Len(graph[1]) :
        /\ Done(1)
        /\ graph[1][n].kind \in UNSUPPORTED_OPS
        /\ graph[1][n].kind # "Median"
        /\ n < Root(graph[1])
        /\ RaisedAt(1, n)
        /\ emitted[1] # {}
        /\ result[1].err = DenialOf(graph[1][n].kind)

-----------------------------------------------------------------------------
(* C2 *)

\* The fragment rule r gives node op of call c from its compiled children.
RuleFragment(c, op, r) ==
    CASE r = "visitor" -> ImpalaVisit(graph[c], op, Kids(c, op), 0).frag
      [] r = "rename" -> Func(SIMPLE_OPS[op.kind], Kids(c, op))
      [] r = "default" -> DefaultTranslate(op, Kids(c, op))
      [] OTHER -> NoFrag

\* C2: every node the traversal has translated got the translation of the
\* first rule that matches its kind, in the order deny-list, custom visitor,
\* simple rename, default: a denied kind has no fragment and ends the call
\* with the denial; a kind with a visitor has the visitor's fragment (or its
\* error); a rename kind has the renamed call; any other kind the default.
C2_DispatchPrecedence ==
    \A c \in Calls : \A n \in 1..Len(graph[c]) :
        LET op == graph[c][n]
            r == IF op.kind \in UNSUPPORTED_OPS THEN "unsupported"
                 ELSE IF op.kind \in VISITORS THEN "visitor"
                 ELSE IF op.kind \in DOMAIN SIMPLE_OPS THEN "rename"
                 ELSE "default"
        IN  /\ InMemo(c, n) =>
                 /\ r # "unsupported"
                 /\ memo[MemoKey(c, n)] = RuleFragment(c, op, r)
            /\ (Done(c) /\ RaisedAt(c, n)) =>
                 /\ r \in { "unsupported", "visitor" }
                 /\ r = "unsupported" => result[c].err = DenialOf(op.kind)
                 /\ r = "visitor" => result[c].err.kind = ""

\* Nodes of three different rules have been translated in one call.
C2_Witness ==
    /\ pc[1] = "run"
    /\ \E n \in 1..Len(graph[1]) :
          InMemo(1, n) /\ graph[1][n].kind = "StringContains"
    /\ \E n \in 1..Len(graph[1]) :
          InMemo(1, n) /\ graph[1][n].kind = "Add"
    /\ \E n \in 1..Len(graph[1]) :
          InMemo(1, n) /\ graph[1][n].kind = "Literal"

-----------------------------------------------------------------------------
(* C3 *)

\* C3: the fragment of every translated node of a kind k of SIMPLE_OPS is a
\* function call named SIMPLE_OPS[k] (bitand for BitwiseAnd, max for Any,
\* regexp_replace for RegexReplace) whose arguments are the fragments of the
\* node's children, as many and in the same order.
C3_SimpleOpsRename ==
    \A c \in Calls : \A n \in 1..Len(graph[c]) :
        LET op == graph[c][n] IN
        (InMemo(c, n) /\ op.kind \in DOMAIN SIMPLE_OPS) =>
            LET frag == memo[MemoKey(c, n)]
            IN  /\ frag.tag = "func"
                /\ frag.f = SIMPLE_OPS[op.kind]
                /\ op.kind = "BitwiseAnd" => frag.f = "bitand"
                /\ op.kind = "Any" => frag.f = "max"
                /\ op.kind = "RegexReplace" => frag.f = "regexp_replace"
                /\ Len(frag.a) = Len(op.args)
                /\ \A j \in 1..Len(op.args) :
                      frag.a[j] = memo[MemoKey(c, op.args[j])]

\* A renamed call over two different children, in their order.
C3_Witness ==
    \E n \in 1..Len(graph[1]) :
        /\ InMemo(1, n)
        /\ graph[1][n].kind = "BitwiseAnd"
        /\ graph[1][n].args = <<2, 1>>
        /\ memo[MemoKey(1, n)].a[1] # memo[MemoKey(1, n)].a[2]

-----------------------------------------------------------------------------
(* C4 *)

\* C4: within one compile call no node's visitor runs twice, and a call that
\* returns SQL has run the visitor of every node of the graph exactly once,
\* however many argument positions refer to the node.
C4_VisitedOnce ==
    \A c \in Calls : \A n \in DOMAIN visits[c] :
        /\ visits[c][n] <= 1
        /\ (Done(c) /\ result[c].status = "ok") => visits[c][n] = 1

\* A finished call whose graph has a node that three or more argument
\* positions refer to.
C4_Witness ==
    \E n \in 1..Len(graph[1]) :
        /\ Done(1)
        /\ result[1].status = "ok"
        /\ RefCount(graph[1], n) >= 3
        /\ visits[1][n] = 1

-----------------------------------------------------------------------------
(* C5 *)

\* C5: whenever the visitor of a node is about to run, every argument node
\* of it has its fragment in the memo map, and every fragment in the memo map
\* is complete (no visitor received an uncompiled child).
C5_BottomUp ==
    \A c \in Calls :
        /\ (pc[c] = "run" /\ stack[c] # <<>>
            /\ Top(c).i > Len(TopOp(c).args)) =>
               \A j \in 1..Len(TopOp(c).args) : InMemo(c, TopOp(c).args[j])
        /\ \A n \in 1..Len(graph[c]) :
              InMemo(c, n) =>
                 /\ Complete(memo[MemoKey(c, n)])
                 /\ \A j \in 1..Len(graph[c][n].args) :
                       InMemo(c, graph[c][n].args[j])

\* The visitor of a root is about to run over an argument that has an
\* argument of its own.
C5_Witness ==
    /\ pc[1] = "run"
    /\ stack[1] # <<>>
    /\ Top(1).n = Root(graph[1])
    /\ Top(1).i > Len(TopOp(1).args)
    /\ \E j \in 1..Len(TopOp(1).args) :
          Len(graph[1][TopOp(1).args[j]].args) > 0

-----------------------------------------------------------------------------
(* C6 *)

ErrorClasses == { "UnsupportedOperationError", "UnsupportedBackendType" }

\* The visitors of impala.py that can raise.
RaisingVisitors ==
    { "HashBytes", "Strftime", "TimestampAdd", "DateDelta",
      "TimestampTruncate", "Literal" }

\* C6: a finished compile call has returned either the complete fragment of
\* the whole graph with its SQL text and no error, or an error with no
\* fragment and no SQL text; after a visitor has raised the outcome is the
\* error, and no fragment of the call outlives it.
C6_AllOrNothing ==
    \A c \in Calls :
        Done(c) =>
            /\ \/ /\ result[c].status = "ok"
                  /\ Complete(result[c].ast)
                  /\ result[c].sql = Render(result[c].ast)
                  /\ result[c].sql # <<>>
                  /\ result[c].err = NoErr
                  /\ emitted[c] = 1..Len(graph[c])
               \/ /\ result[c].status = "error"
                  /\ result[c].ast = NoFrag
                  /\ result[c].sql = <<>>
                  /\ result[c].err.cls \in ErrorClasses
            /\ (\E n \in 1..Len(graph[c]) : RaisedAt(c, n)) =>
                  result[c].status = "error"
            /\ \A n \in 1..Len(graph[c]) : ~InMemo(c, n)

\* A visitor of impala.py raised after fragments of the graph were emitted.
C6_Witness ==
    \E n \in 1..Len(graph[1]) :
        /\ Done(1)
        /\ RaisedAt(1, n)
        /\ graph[1][n].kind \in RaisingVisitors \ {"Literal"}
        /\ emitted[1] # {}
        /\ result[1].status = "error"

-----------------------------------------------------------------------------
(* C7 *)

-----------------------------------------------------------------------------
(* C8 *)

-----------------------------------------------------------------------------
(* C9 *)

Least(S) == CHOOSE x \in S : \A y \in S : x <= y

RECURSIVE Translate(_, _)
\* The outcome of translating node n of graph g on its own: the first
\* failure among the arguments in their order, else the node's translation.
Translate(g, n) ==
    LET op == g[n]
        outs == [j \in 1..Len(op.args) |-> Translate(g, op.args[j])]
        failing == { j \in 1..Len(op.args) : ~outs[j].ok }
    IN  IF failing # {}
        THEN outs[Least(failing)]
        ELSE VisitNode(g, op, [j \in 1..Len(op.args) |-> outs[j].frag], 0)

\* What a compile call of graph g returns when it runs alone.
CompileAlone(g) ==
    LET out == Translate(g, Root(g))
    IN  IF out.ok
        THEN [status |-> "ok", ast |-> out.frag, sql |-> Render(out.frag),
              err |-> NoErr]
        ELSE [status |-> "error", ast |-> NoFrag, sql |-> <<>>, err |-> out.err]

\* C9: with two calls interleaved through the one compiler instance, every
\* finished call has returned what it returns when run alone; every entry of
\* a memo map belongs to a running call and holds the fragment of a node of
\* that call's own graph; the instance has no attribute.
C9_Reentrant ==
    /\ \A c \in Calls : Done(c) => result[c] = CompileAlone(graph[c])
    /\ \A k \in DOMAIN memo :
          /\ pc[k[1]] = "run"
          /\ k[2] \in emitted[k[1]]
          /\ memo[k] = Translate(graph[k[1]], k[2]).frag
    /\ instance = <<>>

\* Both calls are in the middle of their traversals of different graphs.
C9_Witness ==
    /\ pc[1] = "run"
    /\ pc[2] = "run"
    /\ graph[1] # graph[2]
    /\ graph[1][1] # graph[2][1]
    /\ InMemo(1, 1)
    /\ InMemo(2, 1)
    /\ stack[1] # <<>>
    /\ stack[2] # <<>>

-----------------------------------------------------------------------------
(* C10 *)

-----------------------------------------------------------------------------
(* C11 *)

\* The graph of b.contains('x').
ContainsGraph ==
    << Node("Field", <<>>, "b", ""), Node("Literal", <<>>, "x", "string"),
       contains(1, 2) >>

\* C11: the fragment of every translated node haystack.contains(needle) is
\* locate(needle, haystack) > 0: the compiled needle is the first argument of
\* locate, the compiled haystack the second, and the call is compared
\* strictly greater than 0; compiling b.contains('x') returns the text of
\* locate('x', b) > 0.
C11_ContainsIsLocate ==
    \A c \in Calls :
        /\ \A n \in 1..Len(graph[c]) :
              \A h \in 1..Len(graph[c]), s \in 1..Len(graph[c]) :
                 (InMemo(c, n) /\ graph[c][n] = contains(h, s)) =>
                    memo[MemoKey(c, n)] =
                       BinOp(">", Func("locate", << memo[MemoKey(c, s)],
                                                    memo[MemoKey(c, h)] >>),
                             Lit("0"))
        /\ (Done(c) /\ graph[c] = ContainsGraph) =>
              /\ result[c].status = "ok"
              /\ result[c].sql =
                    << "(", "locate", "(", "'", "x", "'", ",", "Field", "b",
                       "(", ")", ")", ">", "0", ")" >>

\* b.contains('x') has been compiled.
C11_Witness ==
    /\ Done(1)
    /\ graph[1] = ContainsGraph
    /\ result[1].status = "ok"
    /\ result[1].ast.f = ">"

-----------------------------------------------------------------------------
(* C12 *)

\* The query SELECT DISTINCT a FROM t ORDER BY b.
DistinctOrderedQuery ==
    QueryIR(<<"a">>, TRUE, <<"b">>, NoWindow, NoSample)

\* The log entry at position k comes after an entry named earlier.
After(k, earlier) == \E m \in 1..(k - 1) : query.log[m] = earlier

\* C12: a compiled query that is DISTINCT and ordered by a column outside its
\* select list is returned as SELECT * FROM (the generated select, still
\* DISTINCT, without its ordering) ORDER BY that column; a query that is not
\* DISTINCT or has no ORDER BY is returned as generated; the post-rewrite
\* runs after code generation; SELECT DISTINCT a ... ORDER BY b is returned
\* as SELECT * FROM (SELECT DISTINCT a FROM t) ORDER BY b.
C12_SplitDistinctOrderBy ==
    LET input == query.input IN
    /\ \A k \in 1..Len(query.log) :
          query.log[k] = "split_select_distinct_with_order_by" =>
             After(k, "codegen")
    /\ query.pc = "done" =>
          /\ \E k \in 1..Len(query.log) :
                query.log[k] = "split_select_distinct_with_order_by"
          /\ (input.distinct /\ input.order # <<>>
              /\ \A i \in 1..Len(input.select) : input.select[i] # input.order[1]) =>
                /\ query.ast.cols = <<"*">>
                /\ ~query.ast.distinct
                /\ query.ast.order = input.order
                /\ query.ast.src = << [query.gen EXCEPT !.order = <<>>] >>
                /\ query.ast.src[1].distinct
                /\ query.ast.src[1].cols = input.select
          /\ (~input.distinct \/ input.order = <<>>) => query.ast = query.gen
          /\ input = DistinctOrderedQuery =>
                query.sql = << "SELECT", "*", "FROM", "(", "SELECT", "DISTINCT",
                               "a", "FROM", "t", ")", "ORDER", "BY", "b" >>

\* SELECT DISTINCT a ... ORDER BY b has been compiled and split.
C12_Witness ==
    /\ query.pc = "done"
    /\ query.input = DistinctOrderedQuery
    /\ query.ast # query.gen
    /\ query.ast.src[1].distinct

-----------------------------------------------------------------------------
(* C13 *)

\* The SQL text orders a window by the injected key.
OrdersWindowByKey(sql) ==
    \E k \in 1..(Len(sql) - 4) :
        /\ sql[k] = "OVER"
        /\ sql[k + 2] = "ORDER"
        /\ sql[k + 3] = "BY"
        /\ sql[k + 4] = InjectedOrderKey

-----------------------------------------------------------------------------
(* C14 *)

Mentions(sql, token) == \E k \in 1..Len(sql) : sql[k] = token

\* C14: a Sample of a method other than "block", or over a derived relation,
\* ends the compilation with an error that names Sample and the dialect and
\* gives a reason, and no AST or SQL text comes of it; a block Sample over a
\* physical table compiles to the dialect's primitive on that table; SQL
\* text with a sampling clause comes only of a block Sample over a physical
\* table.
C14_SamplePolicy ==
    LET input == query.input
        allowed == input.sample.method = "block" /\ input.sample.parent = "table"
    IN  /\ (input.sample # NoSample /\ ~allowed) =>
              /\ query.pc \in { "ir", "failed" }
              /\ query.ast = NoRelation
              /\ query.sql = <<>>
              /\ query.pc = "failed" =>
                    /\ query.err.kind = "Sample"
                    /\ query.err.dialect = Dialect
                    /\ query.err.reason # ""
        /\ (input.sample = NoSample \/ allowed) => query.pc # "failed"
        /\ (query.pc = "done" /\ allowed) =>
              /\ query.gen.src[1] = PhysicalTable("t", "TABLESAMPLE SYSTEM")
              /\ Mentions(query.sql, "TABLESAMPLE SYSTEM")
        /\ Mentions(query.sql, "TABLESAMPLE SYSTEM") => allowed

\* A block Sample over a derived relation has been rejected.
C14_Witness ==
    /\ query.pc = "failed"
    /\ query.input.sample = Sample("block", "derived")
    /\ query.err.reason = "only physical tables can be sampled"

-----------------------------------------------------------------------------
(* C15 *)

\* C15: the fragment of a translated NULL literal of binary type is the
\* untyped NULL token; the fragment of a NULL literal of any other type is
\* the base translation's, a NULL cast to the literal's type; the fragment of
\* a binary literal that is not NULL is the literal, never NULL.
C15_NullLiterals ==
    \A c \in Calls : \A n \in 1..Len(graph[c]) :
        LET op == graph[c][n] IN
        (InMemo(c, n) /\ op.kind = "Literal") =>
            LET frag == memo[MemoKey(c, n)] IN
            /\ (op.attr = "None" /\ op.dtype = "binary") => frag = NULL
            /\ (op.attr = "None" /\ op.dtype # "binary") =>
                  /\ frag = BaseVisitLiteral(op.attr, op.dtype).frag
                  /\ frag = Cast(NULL, op.dtype)
                  /\ Render(frag) = << "CAST", "(", "NULL", "AS", op.dtype, ")" >>
            /\ (op.attr # "None" /\ op.dtype = "binary") =>
                  /\ frag # NULL
                  /\ frag.tag = "lit"
                  /\ frag.f = op.attr

\* A NULL literal of binary type below another node has compiled to NULL.
C15_Witness ==
    \E n \in 1..Len(graph[1]) :
        /\ Done(1)
        /\ n < Root(graph[1])
        /\ graph[1][n] = Node("Literal", <<>>, "None", "binary")
        /\ result[1].status = "ok"
        /\ result[1].ast.a[1] = NULL

-----------------------------------------------------------------------------
(* C16 *)

\* The visitors that reject an argument shape of a supported operation.
ArgumentShapeVisitors == { "TimestampAdd", "Strftime", "DateDelta" }

\* C16 as stated: whenever the visitor of a timestamp addition, a strftime
\* or a date delta has raised, the compile call has ended with
\* UnsupportedArgumentError.
C16_RaisesUnsupportedArgumentError ==
    \A c \in Calls : \A n \in 1..Len(graph[c]) :
        (Done(c) /\ RaisedAt(c, n)
         /\ graph[c][n].kind \in ArgumentShapeVisitors) =>
            result[c].err.cls = "UnsupportedArgumentError"

-----------------------------------------------------------------------------
(* C17 *)

\* C17 as stated: the error of every compile call that failed carries an
\* operation kind, a dialect and a reason, each in a field of its own.
C17_StructuredFailures ==
    \A c \in Calls :
        (Done(c) /\ result[c].status = "error") =>
            /\ result[c].err.kind # ""
            /\ result[c].err.dialect # ""
            /\ result[c].err.reason # ""

-----------------------------------------------------------------------------
(* C18 *)

CallEnded == duck.pc \in { "returned", "raised" }

\* The call passed the checks of its arguments and sent its first statement.
Requested == duck.stmts # <<>>

\* The schema and the rows the call was asked to create the table with.
NewTable ==
    Table(IF duck.args.schema # NoSchema THEN duck.args.schema
          ELSE duck.args.obj.schema,
          duck.args.obj.rows)

\* The tables other than those in keys are as they were before the call.
OthersUnchanged(keys) ==
    /\ DOMAIN duck.tables \ keys = DOMAIN duck.before \ keys
    /\ \A k \in DOMAIN duck.tables \ keys : duck.tables[k] = duck.before[k]

-----------------------------------------------------------------------------
(* C19 *)

NamesCatalogAndTemp == LocCatalog(duck.args.database) # "" /\ duck.args.temp

NothingToCreate == duck.args.obj = NoObj /\ duck.args.schema = NoSchema

HasNullColumn == \E i \in 1..Len(NewTable.schema) : NewTable.schema[i][2] = "null"

\* The call ended with error cls before any statement on a table.
Rejected(cls) ==
    /\ duck.pc = "raised"
    /\ duck.err = cls
    /\ \A k \in 1..Len(duck.stmts) : duck.stmts[k] \notin TableStatements
    /\ duck.tables = duck.before

\* C19 as stated: a call with temp=True and a database that names a catalog
\* is rejected with UnsupportedArgumentError, a call with neither obj nor
\* schema with ValueError, a call whose schema has a NULL-typed column with
\* IbisTypeError; in each case no statement ran and no table changed.
C19_RejectsEachCase ==
    CallEnded =>
        /\ NamesCatalogAndTemp => Rejected("UnsupportedArgumentError")
        /\ NothingToCreate => Rejected("ValueError")
        /\ HasNullColumn => Rejected("IbisTypeError")

\* C19 amended: the three checks are made in this order and the first that
\* fails decides the error: temp=True with a database that names a catalog
\* is rejected with UnsupportedArgumentError; otherwise neither obj nor
\* schema with ValueError; otherwise a schema with a NULL-typed column with
\* IbisTypeError; in each case no CREATE, INSERT, DROP or ALTER ran and no
\* table changed.
C19_RejectsInOrder ==
    CallEnded =>
        /\ NamesCatalogAndTemp => Rejected("UnsupportedArgumentError")
        /\ (NothingToCreate /\ ~NamesCatalogAndTemp) => Rejected("ValueError")
        /\ (HasNullColumn /\ ~NothingToCreate /\ ~NamesCatalogAndTemp) =>
              Rejected("IbisTypeError")
        /\ duck.err \in { "UnsupportedArgumentError", "ValueError", "IbisTypeError" } =>
              duck.stmts = <<>>

\* Data with a NULL-typed column has been rejected on a database with tables,
\* after the pre-execute hooks ran.
C19_Witness ==
    /\ Rejected("IbisTypeError")
    /\ duck.hooks
    /\ duck.args.overwrite
    /\ DOMAIN duck.before # {}

-----------------------------------------------------------------------------
(* C20 *)

\* The indexes Python selects: range(n)[start:stop].
PythonRows(what, n) ==
    LET Bound(bound, default) ==
            IF bound.none THEN default
            ELSE IF bound.v < 0 THEN Max(n + bound.v, 0)
            ELSE Min(bound.v, n)
    IN  { i \in 0..(n - 1) : Bound(what.start, 0) <= i /\ i < Bound(what.stop, n) }

\* The indexes left of n rows after skipping offset rows and then keeping
\* limit rows; skipping or keeping fewer than no row is skipping or keeping
\* none.
LimitRows(limit, offset, n) ==
    LET skipped == Max(offset, 0)
    IN  { i \in 0..(n - 1) :
            /\ skipped <= i
            /\ limit.none \/ i < skipped + Max(limit.v, 0) }

\* What an engine makes of the pair: the rows, or for a negative limit or
\* offset either those rows or an error.
LimitOutcomes(limit, offset, n) ==
    { [ok |-> TRUE, rows |-> LimitRows(limit, offset, n)] }
    \cup (IF offset < 0 \/ (~limit.none /\ limit.v < 0)
          THEN { [ok |-> FALSE, rows |-> {}] }
          ELSE {})

\* C20: a slice whose step is None or 1 converts to a limit and an offset
\* that, applied to n rows, select the rows Python's range(n)[slice] selects,
\* for every start and stop; a slice of any other step raises ValueError.
C20_SliceFaithful ==
    sliced.pc = "done" =>
        IF ~sliced.what.step.none /\ sliced.what.step.v # 1
        THEN sliced.out = ValueError
        ELSE /\ sliced.out.ok
             /\ \E r \in LimitOutcomes(sliced.out.limit, sliced.out.offset,
                                       sliced.count) :
                    /\ r.ok
                    /\ r.rows = PythonRows(sliced.what, sliced.count)

-----------------------------------------------------------------------------
(* C21 *)

\* The two chains of units, coarsest first, and the factor from each unit to
\* the next.
Chains ==
    { [units |-> << "W", "D", "h", "m", "s", "ms", "us", "ns" >>,
       factors |-> << 7, 24, 60, 60, 1000, 1000, 1000 >>],
      [units |-> << "Y", "Q", "M" >>, factors |-> << 4, 3 >>] }

InChain(chain, unit) == \E k \in 1..Len(chain.units) : chain.units[k] = unit

Place(chain, unit) == CHOOSE k \in 1..Len(chain.units) : chain.units[k] = unit

\* x in the unit at place i, expressed unit by unit in the finer unit at j.
RECURSIVE Finer(_, _, _, _)
Finer(chain, x, i, j) ==
    IF i = j THEN x ELSE Finer(chain, BigMul(x, chain.factors[i]), i + 1, j)

\* v in the unit at place i, expressed unit by unit in the coarser unit at j,
\* rounding down.
RECURSIVE Coarser(_, _, _, _)
Coarser(chain, v, i, j) ==
    IF i = j THEN v ELSE Coarser(chain, v \div chain.factors[i - 1], i - 1, j)

\* value times, or divided by, the product of the factors between the units.
Expected(chain, value, i, j) ==
    LET product == Finer(chain, Big(1, 0), Min(i, j), Max(i, j))
    IN  IF value.kind # "int"
        THEN [value EXCEPT !.op = IF i < j THEN "mul" ELSE "floordiv",
                           !.fm = product.m, !.fe = product.e]
        ELSE IF i < j
        THEN LET x == Finer(chain, Big(value.m, 0), i, j)
             IN  Number(x.m, x.e)
        ELSE Number(Coarser(chain, value.m, i, j), 0)

\* C21: convert_unit returns value unchanged when unit = to, value times the
\* product of the factors between the units when unit is the coarser of two
\* units of one chain, value floor-divided by it when unit is the finer and
\* floor is true, raises ValueError when the units differ and are not of one
\* chain, and none of its assertions fails.
C21_ConvertUnit ==
    converted.pc = "done" =>
        /\ converted.out.raised # "AssertionError"
        /\ converted.unit = converted.to =>
              converted.out = Returned(converted.value)
        /\ \A chain \in Chains :
              (/\ converted.unit # converted.to
               /\ InChain(chain, converted.unit)
               /\ InChain(chain, converted.to)
               /\ Place(chain, converted.unit) < Place(chain, converted.to)
                  \/ converted.floor) =>
                 converted.out =
                    Returned(Expected(chain, converted.value,
                                      Place(chain, converted.unit),
                                      Place(chain, converted.to)))
        /\ (/\ converted.unit # converted.to
            /\ ~\E chain \in Chains : /\ InChain(chain, converted.unit)
                                      /\ InChain(chain, converted.to)) =>
              converted.out = Raised("ValueError")

\* Minus one nanosecond has been floor-divided into weeks: minus one week.
C21_Witness ==
    /\ converted.pc = "done"
    /\ converted.unit = "ns"
    /\ converted.to = "W"
    /\ converted.floor
    /\ converted.value = Number(-1, 0)
    /\ converted.out = Returned(Number(-1, 0))

-----------------------------------------------------------------------------
(* C22 *)

Length(pair) == pair[2] - pair[1]

\* C22: for n >= 0 and chunk_size >= 1 the pairs yielded partition [0, n) in
\* order: the first start is 0, each start is the previous end, every chunk
\* has 0 < end - start <= chunk_size, every chunk but the last has length
\* chunk_size, and the generator ends with the last end at n, with no pair
\* for n = 0.
C22_ChunksPartition ==
    (chunked.pc \in { "generator", "exhausted" }
     /\ chunked.n >= 0 /\ chunked.chunk_size >= 1) =>
        LET out == chunked.out
        IN  /\ out # <<>> => out[1][1] = 0
            /\ \A k \in 2..Len(out) : out[k][1] = out[k - 1][2]
            /\ \A k \in 1..Len(out) :
                  /\ 0 < Length(out[k])
                  /\ Length(out[k]) <= chunked.chunk_size
                  /\ out[k][2] <= chunked.n
            /\ \A k \in 1..(Len(out) - 1) : Length(out[k]) = chunked.chunk_size
            /\ chunked.pc = "exhausted" =>
                  IF chunked.n = 0 THEN out = <<>>
                  ELSE out # <<>> /\ out[Len(out)][2] = chunked.n

\* Three chunks or more have been yielded, the last one shorter.
C22_Witness ==
    /\ chunked.pc = "exhausted"
    /\ Len(chunked.out) >= 3
    /\ Length(chunked.out[Len(chunked.out)]) < chunked.chunk_size

-----------------------------------------------------------------------------
(* C23 *)

Literal(x) == x.kind = "int"

\* A slice the claim calls invalid: a step other than None or 1, or a
\* negative literal start or stop.
InvalidSlice(slice) ==
    \/ ~(slice.step = PyNone \/ slice.step = PyInt(1))
    \/ Literal(slice.start) /\ slice.start.v < 0
    \/ Literal(slice.stop) /\ slice.stop.v < 0

\* What indexing gives for an int key and for a slice.
IndexedAsStated ==
    LET self == indexed.self
        key == indexed.key
    IN  /\ key.kind = "int" =>
              indexed.out = StringExpr("Substring", self, PyInt(key.v), PyInt(1))
        /\ key.kind = "slice" =>
              indexed.out =
                 IF InvalidSlice(key.slice) THEN KeyError("ValueError")
                 ELSE IF key.slice.start = PyNone /\ key.slice.stop = PyNone
                 THEN StringExpr("self", self, PyNone, PyNone)
                 ELSE StringExpr("StringSlice", self, key.slice.start,
                                 key.slice.stop)

\* C23: indexing a string expression accepts an int, a slice and an integer
\* scalar expression as key and returns a string value: substr(k, 1) for an
\* int k, the expression itself for a slice with no bounds, a StringSlice for
\* any other valid slice, and ValueError for a slice with a step other than
\* None or 1 or a negative literal start or stop.
C23_AcceptsListedKeys ==
    indexed.pc = "done" =>
        /\ IndexedAsStated
        /\ indexed.key.kind \in { "int", "IntegerScalar" } =>
              indexed.out.raised = ""

-----------------------------------------------------------------------------
(* C26 *)

IsInstall(command) == command[Len(command) - 1] = "INSTALL"

IsLoad(command) == command[Len(command) - 1] = "LOAD"

NameIn(command) == command[Len(command)]

-----------------------------------------------------------------------------
(* C24 *)

\* Operation k of the log is a pre-execute hook on an expression with a
\* table of this name.
References(k, name) ==
    /\ rbr.log[k].op = "_run_pre_execute_hooks"
    /\ \E i \in 1..Len(rbr.log[k].tables) : rbr.log[k].tables[i].name = name

\* Operation k registers a record batch reader under this name.
Registers(k, name) ==
    rbr.log[k].op = "_pyarrow_rbr" /\ rbr.log[k].name = name

Warns(k, name) ==
    \E i \in 1..Len(rbr.log[k].warned) : rbr.log[k].warned[i] = name

\* The flag of a name as the claim gives it after the operations so far:
\* none if no reader was registered under it, else whether a hook has
\* referenced it since the last such registration.
FlagAsStated(name) ==
    LET regs == { k \in 1..Len(rbr.log) : Registers(k, name) }
    IN  IF regs = {} THEN name \notin DOMAIN rbr.consumed
        ELSE LET last == CHOOSE k \in regs : \A j \in regs : j <= k
             IN  /\ name \in DOMAIN rbr.consumed
                 /\ rbr.consumed[name] =
                       \E k \in (last + 1)..Len(rbr.log) : References(k, name)

\* The warnings as the claim gives them: a hook warns about a name exactly
\* when a reader was registered under it earlier and a hook has referenced
\* it between the last such registration and this hook.
WarningsAsStated(name) ==
    \A k \in 1..Len(rbr.log) :
        Warns(k, name) =
           /\ References(k, name)
           /\ \E r \in 1..(k - 1) :
                 /\ Registers(r, name)
                 /\ \A j \in (r + 1)..(k - 1) : ~Registers(j, name)
                 /\ \E j \in (r + 1)..(k - 1) : References(j, name)

\* C24: over any sequence of registrations and pre-execute hooks, for every
\* table name: registering a reader sets the flag to False; the first hook
\* referencing the name after it sets the flag to True and does not warn;
\* every later hook referencing it before a new registration warns and
\* leaves the flag True; a name no reader was registered under is never
\* warned about and has no flag.
C24_ReaderFlags ==
    \A name \in TableNames : FlagAsStated(name) /\ WarningsAsStated(name)

-----------------------------------------------------------------------------
(* C25 *)

\* The statements of a call with overwrite=True, in the order stated.
OverwriteStatements ==
    << "CREATE" >>
    \o (IF duck.args.obj # NoObj THEN << "INSERT" >> ELSE <<>>)
    \o << "DROP" >>
    \o (IF duck.args.temp THEN << "CREATE", "DROP" >> ELSE << "ALTER" >>)

\* The target is as it was before the call.
TargetKept ==
    /\ (final_table \in DOMAIN duck.before) = (final_table \in DOMAIN duck.tables)
    /\ final_table \in DOMAIN duck.before =>
          duck.tables[final_table] = duck.before[final_table]

\* The intermediate table holds the new schema and all the new rows.
Written ==
    /\ initial_table \in DOMAIN duck.tables
    /\ duck.tables[initial_table] = NewTable

-----------------------------------------------------------------------------
(* C27 *)

TemporalTypes == { "date", "time", "timestamp" }

IntegerTypes == { "int8", "int32", "int64", "uint16" }

\* C27: a Cast from a temporal type to an integer type compiles to
\* 1000000 * unix_timestamp(arg), every other Cast to the default translation
\* of the cast, whatever the argument.
C27_CastByTypes ==
    casted.pc = "done" =>
        casted.out =
           IF casted.from_ \in TemporalTypes /\ casted.to \in IntegerTypes
           THEN Frag("binop", "*", "",
                     << Frag("lit", "1000000", "", <<>>),
                        Frag("func", "unix_timestamp", "", << casted.arg >>) >>)
           ELSE Frag("cast", "cast", casted.to, << casted.arg >>)

\* A timestamp column has been cast to int64.
C27_Witness ==
    /\ casted.pc = "done"
    /\ casted.from_ = "timestamp"
    /\ casted.to = "int64"
    /\ casted.arg.tag = "column"
    /\ casted.out.tag = "binop"

-----------------------------------------------------------------------------
(* C28 *)

KeepsSpec == { "First", "Last", "FirstValue", "LastValue", "NthValue" }

\* C28: the window generated has no spec exactly when its function is an
\* analytic function other than First, Last, FirstValue, LastValue and
\* NthValue, and has the spec it was generated with, unmodified, in every
\* other case.
C28_MinimizeSpec ==
    (query.pc \in { "generated", "done" } /\ query.ir.win # NoWindow) =>
        /\ query.gen.win.func = query.ir.win.func
        /\ (query.gen.win.spec = NoSpec) =
              (query.ir.win.func \in Analytic \ KeepsSpec)
        /\ query.gen.win.spec # NoSpec =>
              query.gen.win.spec = query.ir.win.spec
        /\ query.ir.win.spec = query.input.win.spec

\* The frame of a row_number window has been stripped, and no other frame
\* put in its place.
C28_Witness ==
    /\ query.pc = "done"
    /\ query.input.win.func = "RowNumber"
    /\ query.input.win.spec = "ROWS BETWEEN 1 PRECEDING AND CURRENT ROW"
    /\ query.gen.win.spec = NoSpec

====
